---- MODULE Spec2Model ----
(***************************************************************************)
(* Identity translation core of vcluster: name shortening, the metadata    *)
(* merge of labels and annotations, the label key, selector and namespace  *)
(* translation of the multi-namespace translator, and the mirroring of a   *)
(* custom resource definition into the virtual cluster.                    *)
(*                                                                         *)
(* Strings are sequences of one-character strings, so that slicing,        *)
(* joining, splitting and replacing are computed as the Go code computes   *)
(* them.  Maps are functions whose domain is a finite set of strings.      *)
(***************************************************************************)
EXTENDS Integers, Sequences, FiniteSets, TLC

VARIABLES
    nameIn,      \* SafeConcatName: the parts passed to the call
    nameOut,     \* SafeConcatName: the returned string, NoCall before the call
    mapsCall,    \* applyMaps: the last call's arguments and results
    pObj,        \* the target (host) object: labels and annotations
    hist,        \* history of the syncs applied to pObj
    store,       \* mapping store: host label -> virtual label (cluster scope)
    env,         \* the translator's namespace and whether ctx carries a store
    labelCall,   \* the last label translation call and what it returned
    pCluster,    \* host cluster: the type definition of the kind
    vCluster,    \* virtual cluster: the mirrored type definition, if any
    reconcile    \* the invocations of EnsureCRDFromPhysicalCluster

schemaVars == <<pCluster, vCluster, reconcile>>

vars == <<nameIn, nameOut, mapsCall, pObj, hist, store, env, labelCall, schemaVars>>

NoCall == "NoCall"

-----------------------------------------------------------------------------
(* Strings *)

\* The byte value of a character: Go compares and sorts strings bytewise.
Code(c) ==
    CASE c = "\n" -> 10
      [] c = "-" -> 45
      [] c = "." -> 46
      [] c = "/" -> 47
      [] c = "0" -> 48 [] c = "1" -> 49 [] c = "2" -> 50 [] c = "3" -> 51
      [] c = "4" -> 52 [] c = "5" -> 53 [] c = "6" -> 54 [] c = "7" -> 55
      [] c = "8" -> 56 [] c = "9" -> 57
      [] c = "a" -> 97 [] c = "b" -> 98 [] c = "c" -> 99 [] c = "d" -> 100
      [] c = "e" -> 101 [] c = "f" -> 102
      [] c = "k" -> 107 [] c = "l" -> 108 [] c = "m" -> 109 [] c = "n" -> 110
      [] c = "o" -> 111 [] c = "s" -> 115 [] c = "u" -> 117 [] c = "v" -> 118
      [] c = "x" -> 120
      [] OTHER -> 122

HexDigits == <<"0", "1", "2", "3", "4", "5", "6", "7",
               "8", "9", "a", "b", "c", "d", "e", "f">>

\* n copies of the character c
Rep(c, n) == [i \in 1..n |-> c]

\* s[from:to] of Go: the characters at the 0-based offsets from .. to-1
Slice(s, from, to) == SubSeq(s, from + 1, to)

\* strings.HasPrefix
HasPrefix(s, prefix) ==
    /\ Len(prefix) <= Len(s)
    /\ SubSeq(s, 1, Len(prefix)) = prefix

\* strings.Contains
Contains(s, sub) ==
    \E i \in 1..(Len(s) - Len(sub) + 1) : \A j \in 1..Len(sub) : s[i + j - 1] = sub[j]

RECURSIVE JoinFrom(_, _, _)
JoinFrom(elems, sep, i) ==
    IF i > Len(elems) THEN <<>>
    ELSE IF i = Len(elems) THEN elems[i]
    ELSE elems[i] \o sep \o JoinFrom(elems, sep, i + 1)

\* strings.Join
Join(elems, sep) == JoinFrom(elems, sep, 1)

\* the least number of a non-empty set of numbers
Least(S) == CHOOSE i \in S : \A j \in S : i <= j

\* strings.Index + 1: where sub first starts in s, 0 when it does not occur
Index(s, sub) ==
    LET at == {i \in 1..(Len(s) - Len(sub) + 1) :
                  \A j \in 1..Len(sub) : s[i + j - 1] = sub[j]}
    IN  IF at = {} THEN 0 ELSE Least(at)

RECURSIVE ReplaceAll(_, _, _)
\* strings.ReplaceAll for a non-empty old: the non-overlapping occurrences of
\* old, found from left to right, are replaced; the text put in is not
\* scanned again.
ReplaceAll(s, old, new) ==
    LET i == Index(s, old)
    IN  IF i = 0 THEN s
        ELSE SubSeq(s, 1, i - 1) \o new
                 \o ReplaceAll(SubSeq(s, i + Len(old), Len(s)), old, new)

RECURSIVE Split(_, _)
\* strings.Split on a one-character separator: Split("") is [""], a list
\* holding the empty string.
Split(s, sep) ==
    LET i == Index(s, <<sep>>)
    IN  IF i = 0 THEN <<s>>
        ELSE <<SubSeq(s, 1, i - 1)>> \o Split(SubSeq(s, i + 1, Len(s)), sep)

\* a < b on Go strings: bytewise lexicographic
LessStr(a, b) ==
    LET n == IF Len(a) < Len(b) THEN Len(a) ELSE Len(b)
        diff == {i \in 1..n : a[i] # b[i]}
    IN  IF diff = {} THEN Len(a) < Len(b)
        ELSE Code(a[Least(diff)]) < Code(b[Least(diff)])

RECURSIVE SortStrings(_)
\* sort.Strings applied to a list holding each string of the set S once (the
\* keys of a map, appended in the map's iteration order): the result does not
\* depend on that order.
SortStrings(S) ==
    IF S = {} THEN <<>>
    ELSE LET m == CHOOSE x \in S : \A y \in S \ {x} : LessStr(x, y)
         IN  <<m>> \o SortStrings(S \ {m})

\* exists(a, k)
exists(a, k) == \E i \in 1..Len(a) : a[i] = k

RECURSIVE WeightedSum(_, _, _, _)
\* the sum of the byte values of s[lo..hi], each weighted by its offset when
\* w is set, computed by halving the range
WeightedSum(s, lo, hi, w) ==
    IF lo > hi THEN 0
    ELSE IF lo = hi THEN (Code(s[lo]) * (IF w THEN lo ELSE 1)) % 65536
    ELSE LET mid == (lo + hi) \div 2
         IN  (WeightedSum(s, lo, mid, w) + WeightedSum(s, mid + 1, hi, w)) % 65536

\* hex.EncodeToString(sha256.Sum256(s)[0:])[0:n]: the first n characters of
\* the hexadecimal digest of s.  SHA-256 is modelled by a positional checksum:
\* a deterministic function of the whole string whose value is a string of
\* hexadecimal digits.
Sha256Hex(s, n) ==
    LET a == WeightedSum(s, 1, Len(s), TRUE)
        b == WeightedSum(s, 1, Len(s), FALSE)
    IN  [i \in 1..n |-> HexDigits[((a + i * b + 7 * i + Len(s)) % 16) + 1]]

-----------------------------------------------------------------------------
(* SafeConcatName *)

MaxNameLen == 63
CutLen == 52
DigestLen == 10

\* a bug a maintainer could make: the digest appended to the full 63
\* characters instead of to the first 52
SafeConcatNameNoCut(name) ==
    LET fullPath == Join(name, <<"-">>)
    IN  IF Len(fullPath) > MaxNameLen
        THEN ReplaceAll(Slice(fullPath, 0, MaxNameLen) \o <<"-">>
                            \o Sha256Hex(fullPath, DigestLen),
                        <<".", "-">>, <<"-">>)
        ELSE fullPath

\* a bug a maintainer could make: the digest taken of the truncated string
SafeConcatNameCutDigest(name) ==
    LET fullPath == Join(name, <<"-">>)
    IN  IF Len(fullPath) > MaxNameLen
        THEN ReplaceAll(Slice(fullPath, 0, CutLen) \o <<"-">>
                            \o Sha256Hex(Slice(fullPath, 0, CutLen), DigestLen),
                        <<".", "-">>, <<"-">>)
        ELSE fullPath

\* a bug a maintainer could make: the ".-" replacement left out
SafeConcatNameNoReplace(name) ==
    LET fullPath == Join(name, <<"-">>)
    IN  IF Len(fullPath) > MaxNameLen
        THEN Slice(fullPath, 0, CutLen) \o <<"-">> \o Sha256Hex(fullPath, DigestLen)
        ELSE fullPath

SafeConcatName(name) ==
    LET fullPath == Join(name, <<"-">>)
    IN  IF Len(fullPath) > MaxNameLen
        THEN ReplaceAll(Slice(fullPath, 0, CutLen) \o <<"-">>
                            \o Sha256Hex(fullPath, DigestLen),
                        <<".", "-">>, <<"-">>)
        ELSE fullPath

-----------------------------------------------------------------------------
(* Metadata merge *)

\* Reserved keys.  Their texts are set outside the translated files; the
\* model keeps them distinct and under the common "v/" prefix.
ManagedAnnotationsAnnotation == <<"v", "/", "m", "a">>
ManagedLabelsAnnotation == <<"v", "/", "m", "l">>
NameAnnotation == <<"v", "/", "o", "n">>
UIDAnnotation == <<"v", "/", "o", "u">>
KindAnnotation == <<"v", "/", "o", "k">>
NamespaceAnnotation == <<"v", "/", "o", "s">>
MarkerLabel == <<"v", "/", "m", "b">>
NamespaceLabel == <<"v", "/", "n", "s">>
ControllerLabel == <<"v", "/", "c", "b">>

\* a Go map is a function on the finite set of its keys; nil and the empty
\* map are both the function with no keys
EmptyMap == <<>>

\* m[k] of Go: the zero value "" for a key that is not in the map
MapGet(m, k) == IF k \in DOMAIN m THEN m[k] ELSE <<>>

\* m[k] = v
MapSet(m, k, v) == [x \in DOMAIN m \cup {k} |-> IF x = k THEN v ELSE m[x]]

\* delete(m, k)
MapDelete(m, k) == [x \in DOMAIN m \ {k} |-> m[x]]

\* the key a range loop visits next: Go leaves the order open, and neither
\* loop of applyMaps depends on it (each writes keys the other visits leave
\* alone, and the key list is sorted before it is used)
NextKey(S) == CHOOSE x \in S : \A y \in S \ {x} : LessStr(x, y)

RECURSIVE FromLoop(_, _, _, _)
\* for k, v := range fromMap: acc holds retMap and managedKeys
FromLoop(fromMap, todo, opts, acc) ==
    IF todo = {} THEN acc
    ELSE LET k == NextKey(todo)
         IN  IF exists(opts.ExcludeKeys, k)
             THEN FromLoop(fromMap, todo \ {k}, opts, acc)
             ELSE FromLoop(fromMap, todo \ {k}, opts,
                           [retMap |-> MapSet(acc.retMap, k, fromMap[k]),
                            managedKeys |-> Append(acc.managedKeys, k)])

RECURSIVE ToLoop(_, _, _, _, _)
\* for key, value := range toMap
ToLoop(toMap, todo, opts, managedKeys, retMap) ==
    IF todo = {} THEN retMap
    ELSE LET key == NextKey(todo)
         IN  IF exists(opts.ExcludeKeys, key)
             THEN ToLoop(toMap, todo \ {key}, opts, managedKeys,
                         MapSet(retMap, key, toMap[key]))
             ELSE IF exists(managedKeys, key) \/ exists(opts.ManagedKeys, key)
             THEN ToLoop(toMap, todo \ {key}, opts, managedKeys, retMap)
             ELSE ToLoop(toMap, todo \ {key}, opts, managedKeys,
                         MapSet(retMap, key, toMap[key]))

SeqToSet(q) == {q[i] : i \in 1..Len(q)}

\* a bug a maintainer could make: the keys recorded as managed by an earlier
\* sync are not consulted, so a key deleted on the source side stays
applyMapsNoPrior(fromMap, toMap, opts) ==
    LET first == FromLoop(fromMap, DOMAIN fromMap, opts,
                          [retMap |-> EmptyMap, managedKeys |-> <<>>])
        retMap == ToLoop(toMap, DOMAIN toMap, [opts EXCEPT !.ManagedKeys = <<>>],
                         first.managedKeys, first.retMap)
        managedKeysStr == Join(SortStrings(SeqToSet(first.managedKeys)), <<"\n">>)
    IN  [map |-> retMap, keys |-> managedKeysStr]

\* a bug a maintainer could make: the keys kept from the target are recorded
\* as managed too
applyMapsListAll(fromMap, toMap, opts) ==
    LET first == FromLoop(fromMap, DOMAIN fromMap, opts,
                          [retMap |-> EmptyMap, managedKeys |-> <<>>])
        retMap == ToLoop(toMap, DOMAIN toMap, opts, first.managedKeys, first.retMap)
        managedKeysStr == Join(SortStrings(DOMAIN retMap \ SeqToSet(opts.ExcludeKeys)),
                               <<"\n">>)
    IN  [map |-> retMap, keys |-> managedKeysStr]

\* applyMaps returns the merged map and the managed keys, sorted and joined
\* with newlines
applyMaps(fromMap, toMap, opts) ==
    LET first == FromLoop(fromMap, DOMAIN fromMap, opts,
                          [retMap |-> EmptyMap, managedKeys |-> <<>>])
        retMap == ToLoop(toMap, DOMAIN toMap, opts, first.managedKeys, first.retMap)
        managedKeysStr == Join(SortStrings(SeqToSet(first.managedKeys)), <<"\n">>)
    IN  [map |-> retMap, keys |-> managedKeysStr]

applyAnnotations(fromAnnotations, toAnnotations, excludeAnnotations) ==
    LET excludedKeys == <<ManagedAnnotationsAnnotation, ManagedLabelsAnnotation>>
                            \o excludeAnnotations
        r == applyMaps(fromAnnotations, toAnnotations,
                 [ManagedKeys |-> Split(MapGet(toAnnotations,
                                               ManagedAnnotationsAnnotation), "\n"),
                  ExcludeKeys |-> excludedKeys])
    IN  IF r.keys = <<>>
        THEN MapDelete(r.map, ManagedAnnotationsAnnotation)
        ELSE MapSet(r.map, ManagedAnnotationsAnnotation, r.keys)

\* a bug a maintainer could make: nothing is excluded from the label merge
applyLabelsNoExclude(fromLabels, toLabels, toAnnotations) ==
    LET r == applyMaps(fromLabels, toLabels,
                 [ManagedKeys |-> Split(MapGet(toAnnotations,
                                               ManagedLabelsAnnotation), "\n"),
                  ExcludeKeys |-> <<>>])
    IN  [labels |-> r.map,
         annotations |-> IF r.keys = <<>>
                         THEN MapDelete(toAnnotations, ManagedLabelsAnnotation)
                         ELSE MapSet(toAnnotations, ManagedLabelsAnnotation, r.keys)]

applyLabels(fromLabels, toLabels, toAnnotations) ==
    LET r == applyMaps(fromLabels, toLabels,
                 [ManagedKeys |-> Split(MapGet(toAnnotations,
                                               ManagedLabelsAnnotation), "\n"),
                  ExcludeKeys |-> <<ManagedAnnotationsAnnotation,
                                    ManagedLabelsAnnotation>>])
        mergedAnnotations == toAnnotations
    IN  [labels |-> r.map,
         annotations |-> IF r.keys = <<>>
                         THEN MapDelete(mergedAnnotations, ManagedLabelsAnnotation)
                         ELSE MapSet(mergedAnnotations, ManagedLabelsAnnotation, r.keys)]

ApplyMetadata(fromAnnotations, toAnnotations, fromLabels, toLabels, excludeAnnotations) ==
    LET mergedAnnotations == applyAnnotations(fromAnnotations, toAnnotations,
                                              excludeAnnotations)
    IN  applyLabels(fromLabels, toLabels, mergedAnnotations)

\* a bug a maintainer could make: the origin annotations are stamped before
\* the merge, and the host's older values survive it as excluded keys
HostAnnotationsStampFirst(vObj, p, excluded) ==
    LET excl == excluded \o <<NameAnnotation, UIDAnnotation, KindAnnotation,
                              NamespaceAnnotation>>
        toAnnotations == IF p.present THEN p.annotations ELSE EmptyMap
        stamped == MapSet(MapSet(vObj.annotations, NameAnnotation, vObj.name),
                          UIDAnnotation, vObj.uid)
    IN  applyAnnotations(stamped, toAnnotations, excl)

\* HostAnnotations(vObj, pObj, excluded...); p.present is FALSE for a nil pObj
HostAnnotations(vObj, p, excluded) ==
    LET excl == excluded \o <<NameAnnotation, UIDAnnotation, KindAnnotation,
                              NamespaceAnnotation>>
        toAnnotations == IF p.present THEN p.annotations ELSE EmptyMap
        merged == applyAnnotations(vObj.annotations, toAnnotations, excl)
        named == MapSet(MapSet(merged, NameAnnotation, vObj.name),
                        UIDAnnotation, vObj.uid)
        spaced == IF vObj.namespace = <<>>
                  THEN MapDelete(named, NamespaceAnnotation)
                  ELSE MapSet(named, NamespaceAnnotation, vObj.namespace)
    IN  IF vObj.kindKnown
        THEN MapSet(spaced, KindAnnotation, vObj.kind)
        ELSE spaced

-----------------------------------------------------------------------------
(* Cluster scoped label keys, multi-namespace translator *)

\* The reserved key prefix, the vcluster name and the always-synced labels
\* are set outside the translated files.
LabelPrefix == <<"v", "/", "l">>
VClusterName == <<"v", "c">>
SyncedLabels == {<<"s">>}

KeyDigestLen == 10

\* keyMatchesSyncedLabels(ctx, key)
keyMatchesSyncedLabels(key) == key \in SyncedLabels

hostLabelCluster(key, vClusterNamespace) ==
    SafeConcatName(<<LabelPrefix, vClusterNamespace, <<"x">>, VClusterName, <<"x">>,
                     Sha256Hex(key, KeyDigestLen)>>)

\* ctx.Mappings.Store().HostToVirtualLabelCluster(ctx, pLabel)
HostToVirtualLabelCluster(st, pLabel) ==
    [vLabel |-> MapGet(st, pLabel), ok |-> pLabel \in DOMAIN st]

\* recordLabelCluster(ctx, virtual, host): without a store nothing is
\* recorded; with one the pair is put, the last write winning.  Whether a
\* store takes a pair with an empty side is left open (e.keepsIncomplete).
recordLabelCluster(e, st, virtual, host) ==
    IF ~e.hasStore THEN st
    ELSE IF (virtual = <<>> \/ host = <<>>) /\ ~e.keepsIncomplete THEN st
    ELSE MapSet(st, host, virtual)

\* a bug a maintainer could make: a miss passes the host key through
VirtualLabelClusterPassThrough(e, st, pLabel) ==
    IF keyMatchesSyncedLabels(pLabel) \/ ~HasPrefix(pLabel, LabelPrefix)
    THEN [retLabel |-> pLabel, found |-> TRUE, store |-> st, recorded |-> <<>>]
    ELSE LET hit == HostToVirtualLabelCluster(st, pLabel)
             ret == IF e.hasStore /\ hit.ok
                    THEN [retLabel |-> hit.vLabel, found |-> TRUE]
                    ELSE [retLabel |-> pLabel, found |-> TRUE]
         IN  [retLabel |-> ret.retLabel, found |-> ret.found,
              store |-> recordLabelCluster(e, st, ret.retLabel, pLabel),
              recorded |-> <<[virtual |-> ret.retLabel, host |-> pLabel]>>]

\* a bug a maintainer could make: the deferred recording is left out, the
\* store is only looked up
VirtualLabelClusterLookupOnly(e, st, pLabel) ==
    IF keyMatchesSyncedLabels(pLabel) \/ ~HasPrefix(pLabel, LabelPrefix)
    THEN [retLabel |-> pLabel, found |-> TRUE, store |-> st, recorded |-> <<>>]
    ELSE LET hit == HostToVirtualLabelCluster(st, pLabel)
             ret == IF e.hasStore /\ hit.ok
                    THEN [retLabel |-> hit.vLabel, found |-> TRUE]
                    ELSE [retLabel |-> <<>>, found |-> FALSE]
         IN  [retLabel |-> ret.retLabel, found |-> ret.found,
              store |-> st, recorded |-> <<>>]

\* VirtualLabelCluster(ctx, pLabel): the result, the store after the deferred
\* recordLabelCluster(ctx, retLabel, pLabel), and the pairs it was called with
VirtualLabelCluster(e, st, pLabel) ==
    IF keyMatchesSyncedLabels(pLabel) \/ ~HasPrefix(pLabel, LabelPrefix)
    THEN [retLabel |-> pLabel, found |-> TRUE, store |-> st, recorded |-> <<>>]
    ELSE LET hit == HostToVirtualLabelCluster(st, pLabel)
             ret == IF e.hasStore /\ hit.ok
                    THEN [retLabel |-> hit.vLabel, found |-> TRUE]
                    ELSE [retLabel |-> <<>>, found |-> FALSE]
         IN  [retLabel |-> ret.retLabel, found |-> ret.found,
              store |-> recordLabelCluster(e, st, ret.retLabel, pLabel),
              recorded |-> <<[virtual |-> ret.retLabel, host |-> pLabel]>>]

\* a bug a maintainer could make: the deferred recording is left out
HostLabelClusterNoRecord(e, st, key) ==
    IF keyMatchesSyncedLabels(key)
    THEN [retLabel |-> key, store |-> st, recorded |-> <<>>]
    ELSE [retLabel |-> hostLabelCluster(key, e.currentNamespace),
          store |-> st, recorded |-> <<>>]

\* HostLabelCluster(ctx, key): the result, the store after the deferred
\* recordLabelCluster(ctx, key, retLabel), and the pairs it was called with
HostLabelCluster(e, st, key) ==
    IF keyMatchesSyncedLabels(key)
    THEN [retLabel |-> key, store |-> st, recorded |-> <<>>]
    ELSE LET retLabel == hostLabelCluster(key, e.currentNamespace)
         IN  [retLabel |-> retLabel,
              store |-> recordLabelCluster(e, st, key, retLabel),
              recorded |-> <<[virtual |-> key, host |-> retLabel]>>]

-----------------------------------------------------------------------------
(* Namespaced label keys and label maps, multi-namespace translator *)

\* set outside the translated files
NamespaceLabelPrefix == <<"v", "/", "n", "l">>

\* the literal "vcluster.loft.sh/" that every reserved key starts with
ReservedDomain == <<"v", "/">>

\* the virtual namespaces an administrator pinned to a host namespace
PinnedNamespaces == {<<"p">>}

\* pro.VirtualNamespaceMatchesMapping(ctx, vNamespace)
VirtualNamespaceMatchesMapping(vNamespace) ==
    [pNamespace |-> IF vNamespace \in PinnedNamespaces
                    THEN <<"h">> \o vNamespace ELSE <<>>,
     ok |-> vNamespace \in PinnedNamespaces]

\* Default.SingleNamespaceTarget() of the multi-namespace translator
SingleNamespaceTarget == FALSE

\* a Go map value is nil or a map
NilMap == [isNil |-> TRUE, m |-> EmptyMap]
SomeMap(m) == [isNil |-> FALSE, m |-> m]

\* a bug a maintainer could make: the namespaced key is derived like a
\* cluster scoped one
HostLabelHashed(vLabel, vNamespace) == hostLabelCluster(vLabel, vNamespace)

\* multiNamespace.HostLabel(_, vLabel, _)
HostLabel(vLabel, vNamespace) == vLabel

\* multiNamespace.VirtualLabel(_, pLabel, _)
VirtualLabel(pLabel, vNamespace) == [retLabel |-> pLabel, found |-> TRUE]

RECURSIVE CopyLoop(_, _, _, _)
\* for k, v := range fromMap of copyMaps
CopyLoop(fromMap, todo, excludeKey, retMap) ==
    IF todo = {} THEN retMap
    ELSE LET k == NextKey(todo)
         IN  CopyLoop(fromMap, todo \ {k}, excludeKey,
                      IF excludeKey[k] THEN retMap
                      ELSE MapSet(retMap, k, fromMap[k]))

RECURSIVE KeepLoop(_, _, _, _)
\* for key := range toMap of copyMaps
KeepLoop(toMap, todo, excludeKey, retMap) ==
    IF todo = {} THEN retMap
    ELSE LET key == NextKey(todo)
         IN  KeepLoop(toMap, todo \ {key}, excludeKey,
                      IF excludeKey[key] THEN MapSet(retMap, key, toMap[key])
                      ELSE retMap)

copyMaps(fromMap, toMap, excludeKey) ==
    KeepLoop(toMap, DOMAIN toMap, excludeKey,
             CopyLoop(fromMap, DOMAIN fromMap, excludeKey, EmptyMap))

RECURSIVE TranslateBackLoop(_, _, _)
\* for key, value := range retLabels of VirtualLabelsMap: each key is deleted
\* and put back under the key VirtualLabel gives for it
TranslateBackLoop(todo, vNamespace, retLabels) ==
    IF todo = {} THEN retLabels
    ELSE LET key == NextKey(todo)
             value == retLabels[key]
             t == VirtualLabel(key, vNamespace)
             deleted == MapDelete(retLabels, key)
         IN  TranslateBackLoop(todo \ {key}, vNamespace,
                               IF t.found THEN MapSet(deleted, t.retLabel, value)
                               ELSE deleted)

VirtualLabelsMap(pLabels, vLabels, vNamespace, excluded) ==
    IF pLabels.isNil THEN NilMap
    ELSE IF VirtualNamespaceMatchesMapping(vNamespace).ok \/ ~SingleNamespaceTarget
    THEN SomeMap(pLabels.m)
    ELSE LET excl == excluded \o <<MarkerLabel, NamespaceLabel, ControllerLabel>>
             excludeKey == [key \in DOMAIN pLabels.m \cup DOMAIN vLabels.m |->
                               exists(excl, key) \/ HasPrefix(key, NamespaceLabelPrefix)]
             retLabels == copyMaps(pLabels.m, vLabels.m, excludeKey)
         IN  SomeMap(TranslateBackLoop(DOMAIN retLabels, vNamespace, retLabels))

RECURSIVE HostLoop(_, _, _, _)
\* for k, v := range vLabels of HostLabelsMap
HostLoop(vLabels, todo, vNamespace, newLabels) ==
    IF todo = {} THEN newLabels
    ELSE LET k == NextKey(todo)
         IN  HostLoop(vLabels, todo \ {k}, vNamespace,
                      MapSet(newLabels, HostLabel(k, vNamespace), vLabels[k]))

RECURSIVE AddBackLoop(_, _, _)
\* for k, v := range pLabels of HostLabelsMap
AddBackLoop(pLabels, todo, newLabels) ==
    IF todo = {} THEN newLabels
    ELSE LET k == NextKey(todo)
         IN  AddBackLoop(pLabels, todo \ {k},
                         IF HasPrefix(k, ReservedDomain) \/ k \in DOMAIN newLabels
                         THEN newLabels
                         ELSE MapSet(newLabels, k, pLabels[k]))

HostLabelsMap(vLabels, pLabels, vNamespace) ==
    IF vLabels.isNil THEN NilMap
    ELSE IF VirtualNamespaceMatchesMapping(vNamespace).ok \/ ~SingleNamespaceTarget
    THEN SomeMap(vLabels.m)
    ELSE LET translated == HostLoop(vLabels.m, DOMAIN vLabels.m, vNamespace, EmptyMap)
             marked == MapSet(translated, MarkerLabel, VClusterName)
             spaced == IF vNamespace # <<>>
                       THEN MapSet(marked, NamespaceLabel, vNamespace)
                       ELSE MapDelete(marked, NamespaceLabel)
             controlled == IF MapGet(pLabels.m, ControllerLabel) # <<>>
                           THEN MapSet(spaced, ControllerLabel,
                                       MapGet(pLabels.m, ControllerLabel))
                           ELSE spaced
         IN  SomeMap(AddBackLoop(pLabels.m, DOMAIN pLabels.m, controlled))

-----------------------------------------------------------------------------
(* Label selectors *)

\* excluded = append(excluded, MarkerLabel, ControllerLabel) and the copyMaps
\* call of VirtualLabelsMapCluster: the map the translation loop ranges over
clusterRetLabels(pLabels, vLabels, excluded) ==
    LET excl == excluded \o <<MarkerLabel, ControllerLabel>>
        excludeKey == [key \in DOMAIN pLabels.m \cup DOMAIN vLabels.m |->
                          exists(excl, key) \/ HasPrefix(key, NamespaceLabelPrefix)]
    IN  copyMaps(pLabels.m, vLabels.m, excludeKey)

RECURSIVE TranslateBackClusterLoop(_, _, _, _)
\* for key, value := range retLabels of VirtualLabelsMapCluster.  The map is
\* changed while it is ranged over: queue holds the entries the range still
\* produces, first the entries of the map in the order of this run; an entry
\* created by the loop is produced later in the same range or not at all, as
\* Go leaves open, and revisit names the keys whose created entry is produced
\* (each once more at most).  An entry that is only overwritten keeps its
\* place.  acc holds the map, the store and the keys visited so far.
TranslateBackClusterLoop(e, queue, revisit, acc) ==
    IF queue = <<>> THEN acc
    ELSE LET key == Head(queue)
             value == acc.labels[key]
             deleted == MapDelete(acc.labels, key)
             t == VirtualLabelCluster(e, acc.store, key)
             again == /\ t.found
                      /\ t.retLabel \notin DOMAIN deleted
                      /\ t.retLabel \in revisit
         IN  TranslateBackClusterLoop(e,
                 IF again THEN Append(Tail(queue), t.retLabel) ELSE Tail(queue),
                 IF again THEN revisit \ {t.retLabel} ELSE revisit,
                 [labels |-> IF t.found THEN MapSet(deleted, t.retLabel, value)
                             ELSE deleted,
                  store |-> t.store,
                  visits |-> Append(acc.visits, key)])

RECURSIVE AddExistingLoop(_, _, _)
\* for k, v := range pLabels of VirtualLabelsMapCluster
AddExistingLoop(pLabels, todo, retLabels) ==
    IF todo = {} THEN retLabels
    ELSE LET k == NextKey(todo)
         IN  AddExistingLoop(pLabels, todo \ {k},
                             IF HasPrefix(k, ReservedDomain) \/ k \in DOMAIN retLabels
                             THEN retLabels
                             ELSE MapSet(retLabels, k, pLabels[k]))

\* VirtualLabelsMapCluster(ctx, pLabels, vLabels, excluded...) in a run whose
\* range visits the entries in the order given and produces the created
\* entries named by revisit: the map returned, the store after the calls of
\* VirtualLabelCluster, and the keys the range visited
VirtualLabelsMapCluster(e, st, pLabels, vLabels, excluded, order, revisit) ==
    IF pLabels.isNil THEN [labels |-> NilMap, store |-> st, visits |-> <<>>]
    ELSE LET retLabels == clusterRetLabels(pLabels, vLabels, excluded)
             r == TranslateBackClusterLoop(e, order, revisit,
                      [labels |-> retLabels, store |-> st, visits |-> <<>>])
         IN  [labels |-> SomeMap(AddExistingLoop(pLabels.m, DOMAIN pLabels.m, r.labels)),
              store |-> r.store, visits |-> r.visits]

\* multiNamespace.MarkerLabelCluster()
MarkerLabelCluster(e) == SafeConcatName(<<e.currentNamespace, <<"x">>, VClusterName>>)

RECURSIVE HostClusterLoop(_, _, _, _, _)
\* for k, v := range vLabels of HostLabelsMapCluster, in the order of one run
HostClusterLoop(e, vLabels, order, i, acc) ==
    IF i > Len(order) THEN acc
    ELSE LET k == order[i]
             t == HostLabelCluster(e, acc.store, k)
         IN  HostClusterLoop(e, vLabels, order, i + 1,
                 [labels |-> MapSet(acc.labels, t.retLabel, vLabels[k]),
                  store |-> t.store])

\* HostLabelsMapCluster(ctx, vLabels, pLabels): the map returned and the store
\* after the calls of HostLabelCluster
HostLabelsMapCluster(e, st, vLabels, pLabels, order) ==
    LET r == HostClusterLoop(e, vLabels.m, order, 1, [labels |-> EmptyMap, store |-> st])
        controlled == IF MapGet(pLabels.m, ControllerLabel) # <<>>
                      THEN MapSet(r.labels, ControllerLabel,
                                  MapGet(pLabels.m, ControllerLabel))
                      ELSE r.labels
    IN  [labels |-> MapSet(controlled, MarkerLabel, MarkerLabelCluster(e)),
         store |-> r.store]

\* a *metav1.LabelSelector: nil, or MatchLabels (a map or nil) and
\* MatchExpressions (a list of Key, Operator, Values)
NilSelector == [isNil |-> TRUE, MatchLabels |-> NilMap, MatchExpressions |-> <<>>]

\* a range loop over MatchLabels visits the keys in an order Go leaves open:
\* order is the order of one run, the keys of the map in some sequence
Orders(S) ==
    {q \in [1..Cardinality(S) -> S] : \A i, j \in 1..Cardinality(S) : q[i] = q[j] => i = j}

\* labelFunc: the function value the exported selector operations hand to
\* virtualLabelSelector and hostLabelSelector, as the operation it wraps and
\* the arguments it closes over
VirtualLabelFunc(vNamespace) == [name |-> "VirtualLabel", e |-> FALSE, vNamespace |-> vNamespace]
VirtualLabelClusterFunc(e) == [name |-> "VirtualLabelCluster", e |-> e, vNamespace |-> <<>>]
HostLabelFunc(vNamespace) == [name |-> "HostLabel", e |-> FALSE, vNamespace |-> vNamespace]
HostLabelClusterFunc(e) == [name |-> "HostLabelCluster", e |-> e, vNamespace |-> <<>>]

\* pLabel, ok := labelFunc(ctx, k) of virtualLabelSelector
labelFuncVirtual(labelFunc, s, key) ==
    IF labelFunc.name = "VirtualLabelCluster"
    THEN VirtualLabelCluster(labelFunc.e, s, key)
    ELSE LET r == VirtualLabel(key, labelFunc.vNamespace)
         IN  [retLabel |-> r.retLabel, found |-> r.found, store |-> s]

\* labelFunc(ctx, k) of hostLabelSelector
labelFuncHost(labelFunc, s, key) ==
    IF labelFunc.name = "HostLabelCluster"
    THEN HostLabelCluster(labelFunc.e, s, key)
    ELSE [retLabel |-> HostLabel(key, labelFunc.vNamespace), store |-> s]

RECURSIVE VirtualMatchLabelsLoop(_, _, _, _, _)
\* for k, v := range labelSelector.MatchLabels of virtualLabelSelector; acc
\* holds the new MatchLabels, the store and the results of labelFunc so far
VirtualMatchLabelsLoop(MatchLabels, order, i, labelFunc, acc) ==
    IF i > Len(order) THEN acc
    ELSE LET k == order[i]
             t == labelFuncVirtual(labelFunc, acc.store, k)
             pLabel == IF ~t.found THEN k ELSE t.retLabel
         IN  VirtualMatchLabelsLoop(MatchLabels, order, i + 1, labelFunc,
                 [labels |-> MapSet(acc.labels, pLabel, MatchLabels[k]),
                  store |-> t.store,
                  calls |-> Append(acc.calls, [key |-> k, retLabel |-> t.retLabel,
                                               found |-> t.found])])

RECURSIVE VirtualMatchExpressionsLoop(_, _, _, _)
\* for _, r := range labelSelector.MatchExpressions of virtualLabelSelector
VirtualMatchExpressionsLoop(MatchExpressions, i, labelFunc, acc) ==
    IF i > Len(MatchExpressions) THEN acc
    ELSE LET r == MatchExpressions[i]
             t == labelFuncVirtual(labelFunc, acc.store, r.Key)
             pLabel == IF ~t.found THEN r.Key ELSE t.retLabel
         IN  VirtualMatchExpressionsLoop(MatchExpressions, i + 1, labelFunc,
                 [exprs |-> Append(acc.exprs, [Key |-> pLabel, Operator |-> r.Operator,
                                               Values |-> r.Values]),
                  store |-> t.store,
                  calls |-> Append(acc.calls, [key |-> r.Key, retLabel |-> t.retLabel,
                                               found |-> t.found])])

RECURSIVE DropMatchExpressionsLoop(_, _, _, _)
\* a bug a maintainer could make: a requirement whose key has no translation
\* is left out of the new selector
DropMatchExpressionsLoop(MatchExpressions, i, labelFunc, acc) ==
    IF i > Len(MatchExpressions) THEN acc
    ELSE LET r == MatchExpressions[i]
             t == labelFuncVirtual(labelFunc, acc.store, r.Key)
         IN  DropMatchExpressionsLoop(MatchExpressions, i + 1, labelFunc,
                 [exprs |-> IF ~t.found THEN acc.exprs
                            ELSE Append(acc.exprs, [Key |-> t.retLabel,
                                                    Operator |-> r.Operator,
                                                    Values |-> r.Values]),
                  store |-> t.store,
                  calls |-> Append(acc.calls, [key |-> r.Key, retLabel |-> t.retLabel,
                                               found |-> t.found])])

virtualLabelSelectorDropMiss(st, labelSelector, order, labelFunc) ==
    IF labelSelector.isNil
    THEN [sel |-> NilSelector, store |-> st, calls |-> <<>>]
    ELSE LET start == [labels |-> EmptyMap, store |-> st, calls |-> <<>>]
             ml == IF labelSelector.MatchLabels.isNil THEN start
                   ELSE VirtualMatchLabelsLoop(labelSelector.MatchLabels.m, order, 1,
                                               labelFunc, start)
             me == DropMatchExpressionsLoop(labelSelector.MatchExpressions, 1, labelFunc,
                       [exprs |-> <<>>, store |-> ml.store, calls |-> ml.calls])
         IN  [sel |-> [isNil |-> FALSE,
                       MatchLabels |-> IF labelSelector.MatchLabels.isNil THEN NilMap
                                       ELSE SomeMap(ml.labels),
                       MatchExpressions |-> me.exprs],
              store |-> me.store, calls |-> me.calls]

\* virtualLabelSelector(ctx, labelSelector, labelFunc): the new selector, the
\* store after the calls of labelFunc, and what labelFunc returned, in order
virtualLabelSelector(st, labelSelector, order, labelFunc) ==
    IF labelSelector.isNil
    THEN [sel |-> NilSelector, store |-> st, calls |-> <<>>]
    ELSE LET start == [labels |-> EmptyMap, store |-> st, calls |-> <<>>]
             ml == IF labelSelector.MatchLabels.isNil THEN start
                   ELSE VirtualMatchLabelsLoop(labelSelector.MatchLabels.m, order, 1,
                                               labelFunc, start)
             me == VirtualMatchExpressionsLoop(labelSelector.MatchExpressions, 1, labelFunc,
                       [exprs |-> <<>>, store |-> ml.store, calls |-> ml.calls])
         IN  [sel |-> [isNil |-> FALSE,
                       MatchLabels |-> IF labelSelector.MatchLabels.isNil THEN NilMap
                                       ELSE SomeMap(ml.labels),
                       MatchExpressions |-> me.exprs],
              store |-> me.store, calls |-> me.calls]

RECURSIVE HostMatchLabelsLoop(_, _, _, _, _)
\* for k, v := range labelSelector.MatchLabels of hostLabelSelector
HostMatchLabelsLoop(MatchLabels, order, i, labelFunc, acc) ==
    IF i > Len(order) THEN acc
    ELSE LET k == order[i]
             t == labelFuncHost(labelFunc, acc.store, k)
         IN  HostMatchLabelsLoop(MatchLabels, order, i + 1, labelFunc,
                 [labels |-> MapSet(acc.labels, t.retLabel, MatchLabels[k]),
                  store |-> t.store,
                  calls |-> Append(acc.calls, [key |-> k, retLabel |-> t.retLabel,
                                               found |-> TRUE])])

RECURSIVE HostMatchExpressionsLoop(_, _, _, _)
\* for _, r := range labelSelector.MatchExpressions of hostLabelSelector
HostMatchExpressionsLoop(MatchExpressions, i, labelFunc, acc) ==
    IF i > Len(MatchExpressions) THEN acc
    ELSE LET r == MatchExpressions[i]
             t == labelFuncHost(labelFunc, acc.store, r.Key)
         IN  HostMatchExpressionsLoop(MatchExpressions, i + 1, labelFunc,
                 [exprs |-> Append(acc.exprs, [Key |-> t.retLabel, Operator |-> r.Operator,
                                               Values |-> r.Values]),
                  store |-> t.store,
                  calls |-> Append(acc.calls, [key |-> r.Key, retLabel |-> t.retLabel,
                                               found |-> TRUE])])

\* hostLabelSelector(ctx, labelSelector, labelFunc)
hostLabelSelector(st, labelSelector, order, labelFunc) ==
    IF labelSelector.isNil
    THEN [sel |-> NilSelector, store |-> st, calls |-> <<>>]
    ELSE LET start == [labels |-> EmptyMap, store |-> st, calls |-> <<>>]
             ml == IF labelSelector.MatchLabels.isNil THEN start
                   ELSE HostMatchLabelsLoop(labelSelector.MatchLabels.m, order, 1,
                                            labelFunc, start)
             me == HostMatchExpressionsLoop(labelSelector.MatchExpressions, 1, labelFunc,
                       [exprs |-> <<>>, store |-> ml.store, calls |-> ml.calls])
         IN  [sel |-> [isNil |-> FALSE,
                       MatchLabels |-> IF labelSelector.MatchLabels.isNil THEN NilMap
                                       ELSE SomeMap(ml.labels),
                       MatchExpressions |-> me.exprs],
              store |-> me.store, calls |-> me.calls]

VirtualLabelSelector(e, st, labelSelector, vNamespace, order) ==
    virtualLabelSelector(st, labelSelector, order, VirtualLabelFunc(vNamespace))

\* a bug a maintainer could make: see virtualLabelSelectorDropMiss
VirtualLabelSelectorClusterDropMiss(e, st, labelSelector, order) ==
    virtualLabelSelectorDropMiss(st, labelSelector, order, VirtualLabelClusterFunc(e))

VirtualLabelSelectorCluster(e, st, labelSelector, order) ==
    virtualLabelSelector(st, labelSelector, order, VirtualLabelClusterFunc(e))

HostLabelSelector(e, st, labelSelector, vNamespace, order) ==
    hostLabelSelector(st, labelSelector, order, HostLabelFunc(vNamespace))

HostLabelSelectorCluster(e, st, labelSelector, order) ==
    hostLabelSelector(st, labelSelector, order, HostLabelClusterFunc(e))

-----------------------------------------------------------------------------
(* Host namespaces, multi-namespace translator *)

NamespaceDigestLen == 8

\* multiNamespace.getNamespacePrefix(): "vcluster"
getNamespacePrefix == <<"v", "c", "l">>

getNamespaceSuffix(currentNamespace, suffix) ==
    Sha256Hex(currentNamespace \o <<"x">> \o suffix, NamespaceDigestLen)

\* fmt.Sprintf("%s-%s-%s", prefix, digest of vNamespace, suffix digest)
hostNamespace(currentNamespace, vNamespace, prefix, suffix) ==
    prefix \o <<"-">> \o Sha256Hex(vNamespace, NamespaceDigestLen)
           \o <<"-">> \o getNamespaceSuffix(currentNamespace, suffix)

\* multiNamespace.HostNamespace(ctx, vNamespace) of the translator s of a
\* process whose VClusterName is s.vClusterName
HostNamespace(s, vNamespace) ==
    LET pin == VirtualNamespaceMatchesMapping(vNamespace)
    IN  IF pin.ok THEN pin.pNamespace
        ELSE hostNamespace(s.currentNamespace, vNamespace, getNamespacePrefix,
                           s.vClusterName)

-----------------------------------------------------------------------------
(* EnsureCRDFromPhysicalCluster: mirroring a type definition *)

\* groupVersionKind: the kind and the version asked for
RequestedKind == "Kind"
RequestedVersion == "v1"

\* the zero values of the fields the mirrored definition must not carry
NoUID == ""
NoResourceVersion == ""

\* a list holds at most one entry here: the definition a Get returned, the
\* definition the virtual cluster holds
None == <<>>
Some(x) == <<x>>

\* the two results and the error; the error is the list of the parts of its
\* message, the empty list is nil
NoError == <<>>

Return(r, err) ==
    [r EXCEPT !.pc = "returned", !.err = err]

\* the state of an invocation before its first step
Fresh ==
    [pc |-> "idle", isClusterScoped |-> FALSE, hasStatusSubresource |-> FALSE,
     crdDefinition |-> None, err |-> NoError,
     kindExisted |-> FALSE, contactedHost |-> FALSE, attemptedCreate |-> FALSE,
     created |-> FALSE, virtualGet |-> "none", polls |-> "none", cancelled |-> FALSE]

RECURSIVE StatusOfVersion(_, _, _)
\* for _, version := range crdDefinition.Spec.Versions of the existing
\* definition: the first version with the requested name decides
StatusOfVersion(Versions, i, name) ==
    IF i > Len(Versions) THEN FALSE
    ELSE IF Versions[i].Name = name THEN Versions[i].Subresources
    ELSE StatusOfVersion(Versions, i + 1, name)

RECURSIVE KeepVersion(_, _, _)
\* for _, version := range crdDefinition.Spec.Versions of the host
\* definition: newVersions, the first version with the requested name marked
\* as served and as storage
KeepVersion(Versions, i, name) ==
    IF i > Len(Versions) THEN <<>>
    ELSE IF Versions[i].Name = name
    THEN <<[Versions[i] EXCEPT !.Served = TRUE, !.Storage = TRUE]>>
    ELSE KeepVersion(Versions, i + 1, name)

\* a bug a maintainer could make: every version of the host is kept
StripKeepVersions(crdDefinition, name) ==
    [crdDefinition EXCEPT !.UID = NoUID, !.ResourceVersion = NoResourceVersion,
                          !.ManagedFields = FALSE, !.OwnerReferences = FALSE,
                          !.Status = FALSE, !.PreserveUnknownFields = FALSE,
                          !.Conversion = FALSE]

\* the definition sent to the virtual cluster (lines 568 to 590)
Strip(crdDefinition, name) ==
    [crdDefinition EXCEPT !.UID = NoUID, !.ResourceVersion = NoResourceVersion,
                          !.ManagedFields = FALSE, !.OwnerReferences = FALSE,
                          !.Status = FALSE, !.PreserveUnknownFields = FALSE,
                          !.Conversion = FALSE,
                          !.Versions = KeepVersion(crdDefinition.Versions, 1, name)]

\* the virtual cluster's API server takes a definition only if one of its
\* versions is the storage version
Valid(crdDefinition) ==
    \E i \in 1..Len(crdDefinition.Versions) : crdDefinition.Versions[i].Storage

\* discovery lists the kind in the virtual cluster once its definition is
\* there and established
Served(v) == v.crd # None /\ v.established

\* lines 509 to 512 and the call of KindExists: outcome is what the client
\* construction and the virtual cluster's discovery answered
KindExists(r, v, outcome) ==
    IF outcome = "client error" THEN Return(r, <<"client config">>)
    ELSE IF outcome = "error"
    THEN Return(r, <<"check virtual cluster kind: ", "discovery">>)
    ELSE IF Served(v)
    THEN [r EXCEPT !.pc = "get virtual", !.kindExisted = TRUE,
                   !.isClusterScoped = (v.crd[1].Scope = "Cluster")]
    ELSE [r EXCEPT !.pc = "convert kind"]

\* lines 527 to 542: the Get of the existing definition and the look for the
\* status sub-resource
GetVirtual(r, v, outcome) ==
    IF outcome = "error" \/ v.crd = None
    THEN Return([r EXCEPT !.virtualGet = "failed"], NoError)
    ELSE Return([r EXCEPT !.virtualGet = "ok",
                          !.hasStatusSubresource =
                              StatusOfVersion(v.crd[1].Versions, 1, RequestedVersion)],
                NoError)

\* lines 548 to 555: ConvertKindToResource against the host cluster
ConvertKind(r, p, outcome) ==
    LET c == [r EXCEPT !.contactedHost = TRUE]
    IN  IF outcome = "error" THEN Return(c, <<"discovery">>)
        ELSE IF ~p.exposesKind
        THEN Return(c, <<"seems like resource ", RequestedKind,
                         " is not available in the physical cluster or vcluster has no access to it">>)
        ELSE [c EXCEPT !.pc = "get host"]

\* lines 558 to 590: the Get of the host definition, and what is made of it
GetHost(r, p, outcome) ==
    IF outcome = "client error" THEN Return(r, <<"client config">>)
    ELSE IF outcome = "error"
    THEN Return(r, <<"retrieve crd in host cluster: ", "get">>)
    ELSE LET crdDefinition == Strip(p.definition, RequestedVersion)
         IN  [r EXCEPT !.pc = "create",
                       !.crdDefinition = Some(crdDefinition),
                       !.hasStatusSubresource =
                           StatusOfVersion(p.definition.Versions, 1, RequestedVersion)]

\* what the virtual cluster answers to the Create
CreateAnswers(r, v) ==
    {"error"} \cup
    (IF ~Valid(r.crdDefinition[1]) THEN {}
     ELSE IF v.crd = None THEN {"created"} ELSE {"already exists"})

\* a bug a maintainer could make: "already exists" is an error like any other
CreateStrict(r, answer) ==
    LET c == [r EXCEPT !.attemptedCreate = TRUE]
    IN  IF answer # "created"
        THEN Return(c, <<"create crd in virtual cluster: ", answer>>)
        ELSE [c EXCEPT !.pc = "wait", !.created = TRUE]

\* lines 593 to 597
Create(r, answer) ==
    LET c == [r EXCEPT !.attemptedCreate = TRUE]
    IN  IF answer = "error"
        THEN Return(c, <<"create crd in virtual cluster: ", answer>>)
        ELSE [c EXCEPT !.pc = "wait", !.created = (answer = "created")]

\* the virtual cluster after the Create
Created(v, r, answer) ==
    IF answer = "created"
    THEN [v EXCEPT !.crd = r.crdDefinition, !.established = FALSE]
    ELSE v

\* the error of an aborted wait (line 618)
WaitError(cause) ==
    <<"failed to wait for CRD ", RequestedKind, " to become ready: ", cause>>

\* lines 621 to 626: the wait is over, the scope is read off the definition
\* that was sent
Finish(r) ==
    Return([r EXCEPT !.isClusterScoped =
                         IF r.crdDefinition[1].Scope = "Cluster" THEN TRUE
                         ELSE r.isClusterScoped],
           NoError)

\* a bug a maintainer could make: the wait ends with the first poll that
\* fetched the definition, established or not
PollOnce(r, v, outcome) ==
    IF r.cancelled
    THEN Return(r, WaitError("context canceled"))
    ELSE IF outcome = "error" \/ v.crd = None
    THEN Return([r EXCEPT !.polls = "failed"],
                WaitError("retrieve crd in virtual cluster"))
    ELSE Finish([r EXCEPT !.polls = IF v.established THEN "established"
                                    ELSE "not ready"])

\* a bug a maintainer could make: a failed fetch is retried like a
\* definition that is not ready
PollRetry(r, v, outcome) ==
    IF r.cancelled
    THEN Return(r, WaitError("context canceled"))
    ELSE IF outcome = "error" \/ v.crd = None
    THEN [r EXCEPT !.polls = "failed"]
    ELSE IF v.established
    THEN Finish([r EXCEPT !.polls = "established"])
    ELSE [r EXCEPT !.polls = "not ready"]

\* lines 601 to 619: one round of wait.ExponentialBackoffWithContext, which
\* gives up when the context is done and otherwise runs the condition
Poll(r, v, outcome) ==
    IF r.cancelled
    THEN Return(r, WaitError("context canceled"))
    ELSE IF outcome = "error" \/ v.crd = None
    THEN Return([r EXCEPT !.polls = "failed"],
                WaitError("retrieve crd in virtual cluster"))
    ELSE IF v.established
    THEN Finish([r EXCEPT !.polls = "established"])
    ELSE [r EXCEPT !.polls = "not ready"]

-----------------------------------------------------------------------------
(* The calls of SafeConcatName *)

\* how far around each length boundary the inputs reach
Slack == 1

Around(n) == (n - Slack)..(n + Slack)

\* lengths of the filler of a part: empty and tiny parts, and parts whose end
\* falls around the digest length, the cut and the name limit
Fills == {0, 1} \cup Around(DigestLen) \cup Around(CutLen) \cup Around(MaxNameLen)

\* what a part ends in: dots and dashes in every order around a boundary
Tails == {<<>>, <<".">>, <<"-">>, <<".", ".">>, <<".", "-">>, <<".", "a">>}

Parts == {Rep("a", n) \o t : n \in Fills, t \in Tails}

NameInputs ==
    {<<p>> : p \in Parts}
        \cup {<<p, q>> : p \in Parts, q \in Parts}
        \cup {<<p, t, u>> : p \in Parts, t \in Tails, u \in Tails}

IdleMerge == mapsCall = NoCall /\ pObj = NoCall /\ hist = NoCall
IdleLabel == store = NoCall /\ env = NoCall /\ labelCall = NoCall
IdleName == nameIn = NoCall /\ nameOut = NoCall
IdleSchema == pCluster = NoCall /\ vCluster = NoCall /\ reconcile = NoCall

InitName ==
    /\ nameIn \in NameInputs
    /\ nameOut = NoCall
    /\ IdleMerge
    /\ IdleLabel
    /\ IdleSchema

\* the call SafeConcatName(nameIn...)
CallSafeConcatName ==
    /\ nameOut = NoCall
    /\ nameOut' = SafeConcatName(nameIn)
    /\ UNCHANGED <<schemaVars, nameIn, mapsCall, pObj, hist, store, env, labelCall>>

NextName == CallSafeConcatName

SpecName == InitName /\ [][NextName]_vars

\* the "-"-join of the parts of the call
FullPath == Join(nameIn, <<"-">>)

\* the first 52 characters of the join, "-", and the first 10 hexadecimal
\* characters of the digest of the whole join
Shortened == Slice(FullPath, 0, CutLen) \o <<"-">> \o Sha256Hex(FullPath, DigestLen)

RECURSIVE DropDots(_, _, _)
\* s[lo..hi] without each "." that is immediately followed by "-" in s
DropDots(s, lo, hi) ==
    IF lo > hi THEN <<>>
    ELSE IF lo = hi
    THEN IF s[lo] = "." /\ lo < Len(s) /\ s[lo + 1] = "-" THEN <<>> ELSE <<s[lo]>>
    ELSE LET mid == (lo + hi) \div 2
         IN  DropDots(s, lo, mid) \o DropDots(s, mid + 1, hi)

WithoutDotBeforeDash(s) == DropDots(s, 1, Len(s))

Returned == nameOut # NoCall

\* C1: for every list of input strings the result of SafeConcatName is at
\* most 63 characters long.
C1_LengthBound == Returned => Len(nameOut) <= MaxNameLen

\* C1 witness: a call whose join is longer than 63 characters has returned.
C1_Witness == Returned /\ Len(FullPath) > MaxNameLen /\ Len(nameOut) = MaxNameLen

\* C2: a join of at most 63 characters is returned unchanged; a longer one
\* is returned as its first 52 characters, "-", the first 10 hexadecimal
\* characters of the digest of the whole join, with every ".-" replaced by "-".
C2_ShorteningRule ==
    Returned =>
        IF Len(FullPath) <= MaxNameLen
        THEN nameOut = FullPath
        ELSE nameOut = WithoutDotBeforeDash(Shortened)

\* C2 witness: a long join whose cut ends in "." has been shortened, and the
\* dot before the separator is gone.
C2_Witness ==
    /\ Returned
    /\ Len(FullPath) > MaxNameLen
    /\ FullPath[CutLen] = "."
    /\ nameOut # Shortened
    /\ Len(nameOut) < MaxNameLen

-----------------------------------------------------------------------------
(* Single calls of the merge functions *)

Str(c) == <<c>>

\* every map with keys among K and values among V
Maps(K, V) == UNION {[S -> V] : S \in SUBSET K}

\* every list holding the strings of a subset of K once
Lists(K) == {SortStrings(S) : S \in SUBSET K}

ApplyMapsInputs ==
    {[op |-> "applyMaps", done |-> FALSE,
      fromMap |-> f, toMap |-> t, ManagedKeys |-> m, ExcludeKeys |-> e] :
        f \in {x \in Maps({<<>>, Str("a"), Str("b")}, {Str("1"), Str("2")}) :
                  /\ MapGet(x, Str("b")) # Str("1")
                  /\ MapGet(x, <<>>) # Str("2")},
        t \in {x \in Maps({<<>>, Str("b"), Str("c")}, {Str("3"), Str("9")}) :
                  /\ MapGet(x, Str("b")) # Str("3")
                  /\ MapGet(x, <<>>) # Str("3")},
        m \in Lists({<<>>, Str("b"), Str("c")}),
        e \in Lists({Str("a"), Str("b"), Str("c")})}

SystemLabels == {MarkerLabel, NamespaceLabel, ControllerLabel}

ApplyLabelsInputs ==
    {[op |-> "applyLabels", done |-> FALSE,
      fromLabels |-> f, toLabels |-> t, toAnnotations |-> a] :
        f \in Maps(SystemLabels \cup {Str("a"), ManagedLabelsAnnotation,
                                      ManagedAnnotationsAnnotation}, {Str("1")}),
        t \in Maps({MarkerLabel, ControllerLabel, ManagedLabelsAnnotation, Str("c")},
                   {Str("9")}),
        a \in Maps({ManagedLabelsAnnotation}, {Str("c"), ControllerLabel})}

\* the annotations HostAnnotations excludes whatever the caller passes
ReservedAnnotations ==
    {NameAnnotation, UIDAnnotation, KindAnnotation, NamespaceAnnotation,
     ManagedAnnotationsAnnotation, ManagedLabelsAnnotation}

OriginAnnotations ==
    {NameAnnotation, UIDAnnotation, KindAnnotation, NamespaceAnnotation}

VirtualObjects ==
    {[name |-> Str("n"), uid |-> Str("u"), namespace |-> ns, kind |-> Str("k"),
      kindKnown |-> kk, annotations |-> [k \in user \cup reserved |-> Str("1")]] :
        ns \in {<<>>, Str("s")},
        kk \in BOOLEAN,
        user \in SUBSET {<<>>, Str("a")},
        reserved \in {{}, ReservedAnnotations}}

HostObjects ==
    {[present |-> FALSE, annotations |-> EmptyMap]}
        \cup {[present |-> TRUE,
               annotations |-> [k \in user \cup origin \cup DOMAIN kept |->
                                   IF k \in DOMAIN kept THEN kept[k] ELSE Str("9")]] :
                user \in SUBSET {Str("c")},
                origin \in {{}, {NameAnnotation, KindAnnotation}, OriginAnnotations},
                kept \in Maps({ManagedAnnotationsAnnotation}, {Str("a"), Str("c")})
                            \cup {[k \in {ManagedLabelsAnnotation} |-> Str("c")]}}

HostAnnotationsInputs ==
    {[op |-> "HostAnnotations", done |-> FALSE, vObj |-> v, pObj |-> h, excluded |-> e] :
        v \in VirtualObjects, h \in HostObjects, e \in {<<>>, <<Str("a")>>}}

InitMaps ==
    /\ mapsCall \in ApplyMapsInputs \cup ApplyLabelsInputs \cup HostAnnotationsInputs
    /\ pObj = NoCall
    /\ hist = NoCall
    /\ IdleName
    /\ IdleLabel
    /\ IdleSchema

Others == <<nameIn, nameOut, pObj, hist, store, env, labelCall, schemaVars>>

CallApplyMaps ==
    /\ mapsCall.op = "applyMaps" /\ ~mapsCall.done
    /\ LET r == applyMaps(mapsCall.fromMap, mapsCall.toMap,
                          [ManagedKeys |-> mapsCall.ManagedKeys,
                           ExcludeKeys |-> mapsCall.ExcludeKeys])
       IN  mapsCall' = [op |-> "applyMaps", done |-> TRUE,
                        fromMap |-> mapsCall.fromMap, toMap |-> mapsCall.toMap,
                        ManagedKeys |-> mapsCall.ManagedKeys,
                        ExcludeKeys |-> mapsCall.ExcludeKeys,
                        map |-> r.map, keys |-> r.keys]
    /\ UNCHANGED Others

CallApplyLabels ==
    /\ mapsCall.op = "applyLabels" /\ ~mapsCall.done
    /\ LET r == applyLabels(mapsCall.fromLabels, mapsCall.toLabels,
                            mapsCall.toAnnotations)
       IN  mapsCall' = [op |-> "applyLabels", done |-> TRUE,
                        fromLabels |-> mapsCall.fromLabels,
                        toLabels |-> mapsCall.toLabels,
                        toAnnotations |-> mapsCall.toAnnotations,
                        labels |-> r.labels, annotations |-> r.annotations]
    /\ UNCHANGED Others

CallHostAnnotations ==
    /\ mapsCall.op = "HostAnnotations" /\ ~mapsCall.done
    /\ mapsCall' = [op |-> "HostAnnotations", done |-> TRUE,
                    vObj |-> mapsCall.vObj, pObj |-> mapsCall.pObj,
                    excluded |-> mapsCall.excluded,
                    retMap |-> HostAnnotations(mapsCall.vObj, mapsCall.pObj,
                                               mapsCall.excluded)]
    /\ UNCHANGED Others

NextMaps == CallApplyMaps \/ CallApplyLabels \/ CallHostAnnotations

SpecMaps == InitMaps /\ [][NextMaps]_vars

\* str is the strings of S, sorted and joined with newlines (the strings of S
\* hold no newline)
IsSortedJoinOf(str, S) ==
    IF S = {} THEN str = <<>>
    ELSE LET l == Split(str, "\n")
         IN  /\ Len(l) = Cardinality(S)
             /\ SeqToSet(l) = S
             /\ \A i \in 1..(Len(l) - 1) : LessStr(l[i], l[i + 1])

ApplyMapsDone == mapsCall.op = "applyMaps" /\ mapsCall.done

\* C4: applyMaps returns exactly every non-excluded source entry with the
\* source's value, every excluded-key entry of the target with the target's
\* value, and every other target entry whose key is neither in the source
\* nor in the prior managed-key list; the returned key list is the sorted,
\* newline-joined set of non-excluded source keys.
C4_ApplyMapsResult ==
    ApplyMapsDone =>
        LET f == mapsCall.fromMap
            t == mapsCall.toMap
            E == SeqToSet(mapsCall.ExcludeKeys)
            M == SeqToSet(mapsCall.ManagedKeys)
            src == DOMAIN f \ E
            kept == (DOMAIN t \cap E) \cup (DOMAIN t \ (E \cup DOMAIN f \cup M))
        IN  /\ DOMAIN mapsCall.map = src \cup kept
            /\ \A k \in src : mapsCall.map[k] = f[k]
            /\ \A k \in kept : mapsCall.map[k] = t[k]
            /\ IsSortedJoinOf(mapsCall.keys, src)

\* C4 witness: source {a:1,b:2}, target {b:9,c:3}, no managed keys and no
\* exclusions give {a:1,b:2,c:3} and "a\nb".
C4_Witness ==
    /\ ApplyMapsDone
    /\ mapsCall.fromMap = [k \in {Str("a"), Str("b")} |->
                              IF k = Str("a") THEN Str("1") ELSE Str("2")]
    /\ mapsCall.toMap = [k \in {Str("b"), Str("c")} |->
                            IF k = Str("b") THEN Str("9") ELSE Str("3")]
    /\ mapsCall.ManagedKeys = <<>>
    /\ mapsCall.ExcludeKeys = <<>>
    /\ mapsCall.map = [k \in {Str("a"), Str("b"), Str("c")} |->
                          IF k = Str("a") THEN Str("1")
                          ELSE IF k = Str("b") THEN Str("2") ELSE Str("3")]
    /\ mapsCall.keys = <<"a", "\n", "b">>

HostAnnotationsDone == mapsCall.op = "HostAnnotations" /\ mapsCall.done

\* the map holds the key with this value
HasEntry(m, k, v) == k \in DOMAIN m /\ m[k] = v

\* the key is in both maps with one value, or in neither
SameEntry(m1, m2, k) ==
    /\ (k \in DOMAIN m1) = (k \in DOMAIN m2)
    /\ k \in DOMAIN m1 => m1[k] = m2[k]

\* C7: HostAnnotations never lists a reserved annotation as managed and never
\* takes its value from the virtual object's annotations; the result carries
\* origin-name = virtual name, origin-UID = virtual UID and origin-namespace =
\* virtual namespace (absent for a cluster scoped object) whatever the host
\* object held; the managed-annotations value is the new list, or the
\* annotation is removed when that list is empty.
C7_ReservedAnnotations ==
    HostAnnotationsDone =>
        LET v == mapsCall.vObj
            h == mapsCall.pObj.annotations
            r == mapsCall.retMap
            managed == DOMAIN v.annotations
                           \ (ReservedAnnotations \cup SeqToSet(mapsCall.excluded))
            listed == MapGet(r, ManagedAnnotationsAnnotation)
        IN  /\ \A k \in ReservedAnnotations : ~exists(Split(listed, "\n"), k)
            /\ HasEntry(r, NameAnnotation, v.name)
            /\ HasEntry(r, UIDAnnotation, v.uid)
            /\ IF v.namespace = <<>>
               THEN NamespaceAnnotation \notin DOMAIN r
               ELSE HasEntry(r, NamespaceAnnotation, v.namespace)
            /\ IF v.kindKnown
               THEN HasEntry(r, KindAnnotation, v.kind)
               ELSE SameEntry(r, h, KindAnnotation)
            /\ SameEntry(r, h, ManagedLabelsAnnotation)
            /\ IsSortedJoinOf(listed, managed)
            /\ (ManagedAnnotationsAnnotation \in DOMAIN r) = (listed # <<>>)

\* C7 witness: a cluster scoped virtual object that sets every reserved
\* annotation itself was merged into a host object holding older origin
\* annotations and an older managed list; the origin values are those of the
\* virtual object and the list was recomputed.
C7_Witness ==
    /\ HostAnnotationsDone
    /\ mapsCall.vObj.namespace = <<>>
    /\ ReservedAnnotations \subseteq DOMAIN mapsCall.vObj.annotations
    /\ OriginAnnotations \subseteq DOMAIN mapsCall.pObj.annotations
    /\ MapGet(mapsCall.pObj.annotations, ManagedAnnotationsAnnotation) = Str("c")
    /\ HasEntry(mapsCall.retMap, NameAnnotation, Str("n"))
    /\ NamespaceAnnotation \notin DOMAIN mapsCall.retMap
    /\ MapGet(mapsCall.retMap, ManagedAnnotationsAnnotation) = Str("a")

ApplyLabelsDone == mapsCall.op = "applyLabels" /\ mapsCall.done

\* the label merge treats key k as excluded: the source's value is never
\* copied, the target's own entry is kept, and k is not listed as managed
LabelExcluded(k) ==
    /\ SameEntry(mapsCall.labels, mapsCall.toLabels, k)
    /\ ~exists(Split(MapGet(mapsCall.annotations, ManagedLabelsAnnotation), "\n"), k)

\* the label merge treats key k, set by the source, as any managed label:
\* the source's value is copied and k is listed as managed
LabelManaged(k) ==
    /\ k \in DOMAIN mapsCall.labels
    /\ mapsCall.labels[k] = mapsCall.fromLabels[k]
    /\ exists(Split(MapGet(mapsCall.annotations, ManagedLabelsAnnotation), "\n"), k)

\* C8 as stated: the label merge excludes the system labels (ownership
\* marker, originating-namespace marker, controller label): a source-side
\* value is never copied, the target's own value is kept, and the keys never
\* appear in the managed-label list.
C8_SystemLabelsExcluded ==
    ApplyLabelsDone => \A k \in SystemLabels : LabelExcluded(k)

\* C8 amended: the label merge excludes the two bookkeeping keys
\* (managed-annotations, managed-labels) and nothing else: for these a
\* source-side value is never copied, the target's own value is kept, and
\* they never appear in the managed-label list; a system label the source
\* sets is merged like any other label, its source value copied and its key
\* listed as managed.
C8_BookkeepingKeysExcluded ==
    ApplyLabelsDone =>
        /\ \A k \in {ManagedAnnotationsAnnotation, ManagedLabelsAnnotation} :
               LabelExcluded(k)
        /\ \A k \in SystemLabels \cap DOMAIN mapsCall.fromLabels : LabelManaged(k)

\* C8 witness: source and target both set the ownership marker and the
\* managed-labels key; the marker took the source's value and is listed, the
\* managed-labels key kept the target's value.
C8_Witness ==
    /\ ApplyLabelsDone
    /\ {MarkerLabel, ManagedLabelsAnnotation} \subseteq DOMAIN mapsCall.fromLabels
    /\ {MarkerLabel, ManagedLabelsAnnotation} \subseteq DOMAIN mapsCall.toLabels
    /\ HasEntry(mapsCall.labels, MarkerLabel, Str("1"))
    /\ HasEntry(mapsCall.labels, ManagedLabelsAnnotation, Str("9"))
    /\ LabelManaged(MarkerLabel)

-----------------------------------------------------------------------------
(* Repeated syncs of one target object *)

\* what the source side may hold at a sync
SourceAnnotations ==
    {[k \in S |-> Str("1")] :
        S \in {{}, {Str("a")}, {Str("b")}, {Str("a"), Str("b")},
               {Str("a"), ManagedLabelsAnnotation}}}
SourceLabels ==
    {[k \in S |-> Str("1")] : S \in {{}, {Str("a")}, {Str("a"), MarkerLabel}}}

\* what the target holds before the first sync: no bookkeeping annotation
TargetAnnotations == Maps({Str("b"), Str("c")}, {Str("9")})
TargetLabels == Maps({Str("c")}, {Str("9")})

\* the exclusions a call site passes to ApplyMetadata, the same at every sync
CallerExclusions == {<<>>, <<Str("b")>>}

InitSync ==
    /\ pObj \in {[labels |-> l, annotations |-> a] :
                    l \in TargetLabels, a \in TargetAnnotations}
    /\ \E e \in CallerExclusions :
           hist = [syncs |-> 0, excluded |-> e,
                   origAnnotations |-> pObj.annotations, origLabels |-> pObj.labels,
                   fromAnnotations |-> EmptyMap, fromLabels |-> EmptyMap,
                   prevAnnotations |-> {}, prevLabels |-> {},
                   untouchedAnnotations |-> DOMAIN pObj.annotations,
                   untouchedLabels |-> DOMAIN pObj.labels]
    /\ mapsCall = NoCall
    /\ IdleName
    /\ IdleLabel
    /\ IdleSchema

Min(a, b) == IF a < b THEN a ELSE b

\* one sync: ApplyMetadata with the previous result as target.  hist.syncs
\* counts the syncs up to "two or more"; hist.untouched... are the keys of the
\* first target that no sync's source has defined.
Sync ==
    \E fromAnnotations \in SourceAnnotations, fromLabels \in SourceLabels :
        LET r == ApplyMetadata(fromAnnotations, pObj.annotations,
                               fromLabels, pObj.labels, hist.excluded)
        IN  /\ pObj' = [labels |-> r.labels, annotations |-> r.annotations]
            /\ hist' = [hist EXCEPT
                   !.syncs = Min(hist.syncs + 1, 2),
                   !.fromAnnotations = fromAnnotations,
                   !.fromLabels = fromLabels,
                   !.prevAnnotations = DOMAIN hist.fromAnnotations,
                   !.prevLabels = DOMAIN hist.fromLabels,
                   !.untouchedAnnotations =
                       hist.untouchedAnnotations \ DOMAIN fromAnnotations,
                   !.untouchedLabels = hist.untouchedLabels \ DOMAIN fromLabels]
            /\ UNCHANGED <<schemaVars, nameIn, nameOut, mapsCall, store, env, labelCall>>

NextSync == Sync

SpecSync == InitSync /\ [][NextSync]_vars

\* the keys the bookkeeping keeps out of the annotation merge, and out of the
\* label merge
ExcludedAnnotations ==
    {ManagedAnnotationsAnnotation, ManagedLabelsAnnotation} \cup SeqToSet(hist.excluded)
ExcludedLabels == {ManagedAnnotationsAnnotation, ManagedLabelsAnnotation}

\* the keys the source defined in the previous sync and not in this one
DroppedAnnotations ==
    IF hist.syncs < 2 THEN {} ELSE hist.prevAnnotations \ DOMAIN hist.fromAnnotations
DroppedLabels ==
    IF hist.syncs < 2 THEN {} ELSE hist.prevLabels \ DOMAIN hist.fromLabels

UntouchedAnnotations == hist.untouchedAnnotations
UntouchedLabels == hist.untouchedLabels

\* C5 as stated: after each sync, a key the source defined in the previous
\* sync and no longer defines is absent from the target, and a non-reserved
\* key of the target that no sync's source defined is still there with the
\* target's value, from the first sync on.
C5_DeletionAndPreservation ==
    hist.syncs >= 1 =>
        /\ \A k \in DroppedAnnotations : k \notin DOMAIN pObj.annotations
        /\ \A k \in DroppedLabels : k \notin DOMAIN pObj.labels
        /\ \A k \in UntouchedAnnotations \ ReservedAnnotations :
               HasEntry(pObj.annotations, k, hist.origAnnotations[k])
        /\ \A k \in UntouchedLabels \ SystemLabels :
               HasEntry(pObj.labels, k, hist.origLabels[k])

\* C5 amended: the same, for the keys the merge does not exclude: a
\* non-excluded key the source defined in the previous sync and no longer
\* defines is absent from the target; a key of the target that no sync's
\* source defined is still there with the target's value.
C5_AmendedForManagedKeys ==
    hist.syncs >= 1 =>
        /\ \A k \in DroppedAnnotations \ ExcludedAnnotations :
               k \notin DOMAIN pObj.annotations
        /\ \A k \in DroppedLabels \ ExcludedLabels : k \notin DOMAIN pObj.labels
        /\ \A k \in UntouchedAnnotations \ ReservedAnnotations :
               HasEntry(pObj.annotations, k, hist.origAnnotations[k])
        /\ \A k \in UntouchedLabels \ SystemLabels :
               HasEntry(pObj.labels, k, hist.origLabels[k])

\* C5 witness: after two syncs or more, the source has dropped a managed
\* annotation and a managed label, both are gone from the target, and the
\* target still holds an annotation and a label of its own.
C5_Witness ==
    /\ hist.syncs >= 2
    /\ Str("a") \in DroppedAnnotations /\ Str("a") \notin DOMAIN pObj.annotations
    /\ Str("a") \in DroppedLabels /\ Str("a") \notin DOMAIN pObj.labels
    /\ Str("c") \in UntouchedAnnotations /\ Str("c") \in DOMAIN pObj.annotations
    /\ Str("c") \in UntouchedLabels /\ Str("c") \in DOMAIN pObj.labels

\* C6: applying ApplyMetadata again with the same source, on the labels and
\* annotations the previous application returned, returns the same labels
\* and annotations, bookkeeping values included.
C6_Idempotent ==
    hist.syncs >= 1 =>
        LET again == ApplyMetadata(hist.fromAnnotations, pObj.annotations,
                                   hist.fromLabels, pObj.labels, hist.excluded)
        IN  /\ again.labels = pObj.labels
            /\ again.annotations = pObj.annotations

\* C6 witness: a sync has written both bookkeeping annotations onto a target
\* that keeps an annotation and a label of its own.
C6_Witness ==
    /\ hist.syncs >= 1
    /\ ManagedAnnotationsAnnotation \in DOMAIN pObj.annotations
    /\ ManagedLabelsAnnotation \in DOMAIN pObj.annotations
    /\ Str("c") \in DOMAIN pObj.annotations
    /\ Str("c") \in DOMAIN pObj.labels

-----------------------------------------------------------------------------
(* Translations of cluster scoped label keys through one store *)

\* virtual keys: "b" and "2" have one digest in this model, "s" is always
\* synced, the last one carries the reserved prefix itself
VirtualKeys == {Str("a"), Str("b"), Str("2"), Str("s"), LabelPrefix \o <<"-", "a">>}

\* the namespace the translator was built with: a short one, and one long
\* enough for every derived key to be shortened
Namespaces == {<<"n", "s">>, Rep("n", CutLen)}

\* host keys: every derived key, the synced label, a plain host label, and a
\* reserved-prefix key that no translation derives
HostKeys(e) ==
    {hostLabelCluster(k, e.currentNamespace) : k \in VirtualKeys \ SyncedLabels}
        \cup SyncedLabels \cup {Str("c"), LabelPrefix \o <<"-", "c">>}

InitLabel ==
    /\ env \in {[currentNamespace |-> n, hasStore |-> h, keepsIncomplete |-> k] :
                   n \in Namespaces, h \in BOOLEAN, k \in BOOLEAN}
    /\ store = EmptyMap
    /\ labelCall = [op |-> "none"]
    /\ IdleName
    /\ IdleMerge
    /\ IdleSchema

CallHostLabelCluster ==
    \E key \in VirtualKeys :
        LET r == HostLabelCluster(env, store, key)
        IN  /\ store' = r.store
            /\ labelCall' = [op |-> "HostLabelCluster", arg |-> key,
                             retLabel |-> r.retLabel, found |-> TRUE,
                             recorded |-> r.recorded, before |-> store]
            /\ UNCHANGED <<schemaVars, nameIn, nameOut, mapsCall, pObj, hist, env>>

CallVirtualLabelCluster ==
    \E pLabel \in HostKeys(env) :
        LET r == VirtualLabelCluster(env, store, pLabel)
        IN  /\ store' = r.store
            /\ labelCall' = [op |-> "VirtualLabelCluster", arg |-> pLabel,
                             retLabel |-> r.retLabel, found |-> r.found,
                             recorded |-> r.recorded, before |-> store]
            /\ UNCHANGED <<schemaVars, nameIn, nameOut, mapsCall, pObj, hist, env>>

NextLabel == CallHostLabelCluster \/ CallVirtualLabelCluster

SpecLabel == InitLabel /\ [][NextLabel]_vars

\* what VirtualLabelCluster returns for the key HostLabelCluster just returned
TranslatedBack == VirtualLabelCluster(env, store, labelCall.retLabel)

\* C9: a cluster scoped virtual key translated to the host with
\* HostLabelCluster and then back with VirtualLabelCluster through the same
\* store comes back as the original key, reported as found, whatever was
\* translated through the store before.
C9_RoundTrip ==
    (labelCall.op = "HostLabelCluster" /\ env.hasStore) =>
        /\ TranslatedBack.retLabel = labelCall.arg
        /\ TranslatedBack.found

\* C9 witness: a key that is not always synced was translated to a shortened
\* host key through a store that already held another pair, and comes back.
C9_Witness ==
    /\ labelCall.op = "HostLabelCluster"
    /\ env.hasStore
    /\ labelCall.arg = Str("a")
    /\ Len(labelCall.retLabel) = MaxNameLen
    /\ DOMAIN labelCall.before # {}
    /\ labelCall.retLabel \notin DOMAIN labelCall.before
    /\ TranslatedBack.retLabel = Str("a")

\* C10: VirtualLabelCluster always returns a result: an always-synced key or
\* a key without the reserved prefix unchanged, as found; a reserved-prefix
\* key with a recorded inverse as that inverse, as found; a reserved-prefix
\* key without one, or without a store, as the empty key, not found.
C10_VirtualLabelClusterTotal ==
    labelCall.op = "VirtualLabelCluster" =>
        LET p == labelCall.arg
            st == labelCall.before
        IN  IF p \in SyncedLabels \/ ~HasPrefix(p, LabelPrefix)
            THEN labelCall.retLabel = p /\ labelCall.found
            ELSE IF env.hasStore /\ p \in DOMAIN st
            THEN labelCall.retLabel = st[p] /\ labelCall.found
            ELSE labelCall.retLabel = <<>> /\ ~labelCall.found

\* C10 witness: a reserved-prefix key that the store holds no inverse for was
\* translated and reported as not found.
C10_Witness ==
    /\ labelCall.op = "VirtualLabelCluster"
    /\ env.hasStore
    /\ HasPrefix(labelCall.arg, LabelPrefix)
    /\ DOMAIN labelCall.before # {}
    /\ labelCall.arg \notin DOMAIN labelCall.before
    /\ labelCall.retLabel = <<>>
    /\ ~labelCall.found

\* the last call went past the pass-through branch of its function
Derived ==
    \/ labelCall.op = "HostLabelCluster" /\ labelCall.arg \notin SyncedLabels
    \/ /\ labelCall.op = "VirtualLabelCluster"
       /\ labelCall.arg \notin SyncedLabels
       /\ HasPrefix(labelCall.arg, LabelPrefix)

\* C11 as stated: only HostLabelCluster on a key that is not always synced
\* calls recordLabelCluster, with the pair (key, derived key) on every call;
\* VirtualLabelCluster never calls it.
C11_OnlyForwardRecords ==
    /\ labelCall.op = "HostLabelCluster" =>
           labelCall.recorded =
               IF labelCall.arg \in SyncedLabels THEN <<>>
               ELSE <<[virtual |-> labelCall.arg, host |-> labelCall.retLabel]>>
    /\ labelCall.op = "VirtualLabelCluster" => labelCall.recorded = <<>>

\* C11 amended: HostLabelCluster on a key that is not always synced calls
\* recordLabelCluster with (key, derived key) on every call, and with a store
\* the derived key then maps to the key; VirtualLabelCluster on a reserved-
\* prefix key that is not always synced calls recordLabelCluster too, with
\* (returned key, host key), on a hit as on a miss, and on a hit this leaves
\* the store as it was; a key that is passed through records nothing and
\* leaves the store as it was.
C11_BothDirectionsRecord ==
    /\ labelCall.op = "HostLabelCluster" /\ Derived =>
           /\ labelCall.recorded =
                  <<[virtual |-> labelCall.arg, host |-> labelCall.retLabel]>>
           /\ env.hasStore => HasEntry(store, labelCall.retLabel, labelCall.arg)
    /\ labelCall.op = "VirtualLabelCluster" /\ Derived =>
           /\ labelCall.recorded =
                  <<[virtual |-> labelCall.retLabel, host |-> labelCall.arg]>>
           /\ labelCall.found => store = labelCall.before
    /\ labelCall.op # "none" /\ ~Derived =>
           labelCall.recorded = <<>> /\ store = labelCall.before
    /\ ~env.hasStore => store = EmptyMap

\* C11 witness: VirtualLabelCluster found the inverse that an earlier
\* HostLabelCluster call recorded, and asked for the pair to be recorded again.
C11_Witness ==
    /\ labelCall.op = "VirtualLabelCluster"
    /\ labelCall.found
    /\ labelCall.retLabel = Str("a")
    /\ HasEntry(labelCall.before, labelCall.arg, Str("a"))
    /\ labelCall.recorded = <<[virtual |-> Str("a"), host |-> labelCall.arg]>>

-----------------------------------------------------------------------------
(* Translations of namespaced label keys and label maps *)

\* virtual namespaces: none, an ordinary one, a pinned one
VirtualNamespaces == {<<>>, <<"n", "s">>} \cup PinnedNamespaces

\* label maps: nil, empty, plain keys, a reserved-prefix key, system labels
LabelMaps ==
    {NilMap} \cup
    {SomeMap(m) : m \in {EmptyMap,
                         Str("a") :> Str("1"),
                         (Str("a") :> Str("1")) @@ (Str("s") :> Str("2")),
                         (LabelPrefix \o <<"-", "a">>) :> Str("1"),
                         (MarkerLabel :> Str("9")) @@ (Str("c") :> Str("3")),
                         (ControllerLabel :> Str("7")) @@ (NamespaceLabel :> Str("8"))}}

InitNsLabel ==
    /\ env \in {[currentNamespace |-> n, hasStore |-> h, keepsIncomplete |-> FALSE] :
                   n \in Namespaces, h \in BOOLEAN}
    /\ store = EmptyMap
    /\ labelCall = [op |-> "none"]
    /\ IdleName
    /\ IdleMerge
    /\ IdleSchema

CallHostLabel ==
    \E vLabel \in VirtualKeys, vNamespace \in VirtualNamespaces :
        /\ labelCall' = [op |-> "HostLabel", arg |-> vLabel, ns |-> vNamespace,
                         retLabel |-> HostLabel(vLabel, vNamespace)]
        /\ UNCHANGED <<schemaVars, nameIn, nameOut, mapsCall, pObj, hist, env, store>>

CallVirtualLabel ==
    \E pLabel \in HostKeys(env), vNamespace \in VirtualNamespaces :
        LET r == VirtualLabel(pLabel, vNamespace)
        IN  /\ labelCall' = [op |-> "VirtualLabel", arg |-> pLabel, ns |-> vNamespace,
                             retLabel |-> r.retLabel, found |-> r.found]
            /\ UNCHANGED <<schemaVars, nameIn, nameOut, mapsCall, pObj, hist, env, store>>

CallHostLabelsMap ==
    \E vLabels \in LabelMaps, pLabels \in LabelMaps, vNamespace \in VirtualNamespaces :
        /\ labelCall' = [op |-> "HostLabelsMap", arg |-> vLabels, other |-> pLabels,
                         ns |-> vNamespace,
                         ret |-> HostLabelsMap(vLabels, pLabels, vNamespace)]
        /\ UNCHANGED <<schemaVars, nameIn, nameOut, mapsCall, pObj, hist, env, store>>

CallVirtualLabelsMap ==
    \E pLabels \in LabelMaps, vLabels \in LabelMaps, vNamespace \in VirtualNamespaces :
        /\ labelCall' = [op |-> "VirtualLabelsMap", arg |-> pLabels, other |-> vLabels,
                         ns |-> vNamespace,
                         ret |-> VirtualLabelsMap(pLabels, vLabels, vNamespace, <<>>)]
        /\ UNCHANGED <<schemaVars, nameIn, nameOut, mapsCall, pObj, hist, env, store>>

NextNsLabel ==
    CallHostLabel \/ CallVirtualLabel \/ CallHostLabelsMap \/ CallVirtualLabelsMap

SpecNsLabel == InitNsLabel /\ [][NextNsLabel]_vars

\* C12 as stated: the virtual-to-host translation of a namespaced key in a
\* namespace that is not pinned yields a derived key under the reserved
\* prefix and records it in the store.
C12_NamespacedKeysHashed ==
    (/\ labelCall.op = "HostLabel"
     /\ labelCall.arg \notin SyncedLabels
     /\ labelCall.ns \notin PinnedNamespaces
     /\ env.hasStore) =>
        /\ HasPrefix(labelCall.retLabel, LabelPrefix)
        /\ labelCall.retLabel # labelCall.arg
        /\ HasEntry(store, labelCall.retLabel, labelCall.arg)

\* C12 amended: in multi-namespace mode a namespaced label key is translated
\* to itself in both directions, always as translatable, whatever the virtual
\* namespace and whether it is pinned or not; nothing is hashed and the store
\* stays as it was; HostLabelsMap and VirtualLabelsMap return nil for nil and
\* otherwise the labels they were given.
C12_NamespacedKeysUnchanged ==
    /\ labelCall.op = "HostLabel" => labelCall.retLabel = labelCall.arg
    /\ labelCall.op = "VirtualLabel" =>
           labelCall.retLabel = labelCall.arg /\ labelCall.found
    /\ labelCall.op \in {"HostLabelsMap", "VirtualLabelsMap"} =>
           labelCall.ret = labelCall.arg
    /\ labelCall.op \in {"HostLabel", "VirtualLabel", "HostLabelsMap",
                          "VirtualLabelsMap"} => store = EmptyMap

\* C12 witness: a key that is not always synced was translated to the host
\* for a virtual namespace that is not pinned, with a store at hand.
C12_Witness ==
    /\ labelCall.op = "HostLabel"
    /\ labelCall.arg = Str("a")
    /\ labelCall.ns = <<"n", "s">>
    /\ env.hasStore
    /\ labelCall.retLabel = Str("a")

-----------------------------------------------------------------------------
(* Selector rewriting through one store *)

\* keys of virtual selectors: a plain key and an always-synced one
SelectorVirtualKeys == {Str("a"), Str("s")}

\* keys of host selectors: the key derived for "a", the plain key "a", and a
\* reserved-prefix key that no translation derives
SelectorHostKeys(e) ==
    {hostLabelCluster(Str("a"), e.currentNamespace), Str("a"), LabelPrefix \o <<"-", "c">>}

\* how many keys a selector holds at most, MatchLabels and MatchExpressions
\* together
MaxSelectorKeys == 2

SelectorOperators == <<"In", "Exists", "NotIn">>
SelectorValues == <<<<Str("1"), Str("2")>>, <<>>, <<Str("3")>>>>

\* the requirements on the keys q, in this order, each with its own operator
\* and values
Requirements(q) ==
    [i \in 1..Len(q) |-> [Key |-> q[i], Operator |-> SelectorOperators[i],
                          Values |-> SelectorValues[i]]]

KeyLists(K) == UNION {[1..n -> K] : n \in 0..MaxSelectorKeys}

\* the value a selector's MatchLabels give a key: one per key
SelectorValue(k) == <<"=">> \o k

MatchLabelMaps(K) ==
    {NilMap} \cup
    {SomeMap([k \in S |-> SelectorValue(k)]) :
        S \in {T \in SUBSET K : Cardinality(T) <= MaxSelectorKeys}}

Selectors(K) ==
    {NilSelector} \cup
    {sel \in {[isNil |-> FALSE, MatchLabels |-> ml, MatchExpressions |-> Requirements(q)] :
                 ml \in MatchLabelMaps(K), q \in KeyLists(K)} :
        Cardinality(DOMAIN sel.MatchLabels.m) + Len(sel.MatchExpressions) <= MaxSelectorKeys}

InitSelector ==
    /\ env \in {[currentNamespace |-> n, hasStore |-> h, keepsIncomplete |-> k] :
                   n \in {<<"n", "s">>}, h \in BOOLEAN, k \in BOOLEAN}
    /\ store = EmptyMap
    /\ labelCall = [op |-> "none"]
    /\ IdleName
    /\ IdleMerge
    /\ IdleSchema

Rewritten(op, labelSelector, order, r) ==
    /\ store' = r.store
    /\ labelCall' = [op |-> op, arg |-> labelSelector, order |-> order, ret |-> r.sel,
                     calls |-> r.calls, before |-> store]
    /\ UNCHANGED <<schemaVars, nameIn, nameOut, mapsCall, pObj, hist, env>>

CallHostLabelSelectorCluster ==
    \E labelSelector \in Selectors(SelectorVirtualKeys) :
        \E order \in Orders(DOMAIN labelSelector.MatchLabels.m) :
            Rewritten("HostLabelSelectorCluster", labelSelector, order,
                      HostLabelSelectorCluster(env, store, labelSelector, order))

CallVirtualLabelSelectorCluster ==
    \E labelSelector \in Selectors(SelectorHostKeys(env)) :
        \E order \in Orders(DOMAIN labelSelector.MatchLabels.m) :
            Rewritten("VirtualLabelSelectorCluster", labelSelector, order,
                      VirtualLabelSelectorCluster(env, store, labelSelector, order))

CallHostLabelSelector ==
    \E labelSelector \in Selectors(SelectorVirtualKeys), vNamespace \in PinnedNamespaces :
        \E order \in Orders(DOMAIN labelSelector.MatchLabels.m) :
            Rewritten("HostLabelSelector", labelSelector, order,
                      HostLabelSelector(env, store, labelSelector, vNamespace, order))

CallVirtualLabelSelector ==
    \E labelSelector \in Selectors(SelectorHostKeys(env)), vNamespace \in {<<"n", "s">>} :
        \E order \in Orders(DOMAIN labelSelector.MatchLabels.m) :
            Rewritten("VirtualLabelSelector", labelSelector, order,
                      VirtualLabelSelector(env, store, labelSelector, vNamespace, order))

NextSelector ==
    \/ CallHostLabelSelectorCluster
    \/ CallVirtualLabelSelectorCluster
    \/ CallHostLabelSelector
    \/ CallVirtualLabelSelector

SpecSelector == InitSelector /\ [][NextSelector]_vars

\* the key a rewrite put in the new selector for the n-th key it translated
Emitted(n) ==
    IF labelCall.calls[n].found THEN labelCall.calls[n].retLabel
    ELSE labelCall.calls[n].key

\* how many MatchLabels keys the last rewrite translated
LabelCalls == Len(labelCall.order)

\* the operator and the values of every requirement are the input's, in the
\* input's order
RequirementsCarried ==
    /\ Len(labelCall.ret.MatchExpressions) = Len(labelCall.arg.MatchExpressions)
    /\ \A i \in 1..Len(labelCall.arg.MatchExpressions) :
           i <= Len(labelCall.ret.MatchExpressions) =>
               /\ labelCall.ret.MatchExpressions[i].Operator =
                      labelCall.arg.MatchExpressions[i].Operator
               /\ labelCall.ret.MatchExpressions[i].Values =
                      labelCall.arg.MatchExpressions[i].Values

\* C13: a rewrite in either direction gives nil for nil, MatchLabels exactly
\* when the input has them, one requirement per input requirement with the
\* same operator and values in the same order, and every MatchLabels value
\* under the key its key was translated to.
C13_KeysOnly ==
    labelCall.op # "none" =>
        /\ labelCall.ret.isNil = labelCall.arg.isNil
        /\ labelCall.ret.MatchLabels.isNil = labelCall.arg.MatchLabels.isNil
        /\ RequirementsCarried
        /\ \A n \in 1..LabelCalls :
               HasEntry(labelCall.ret.MatchLabels.m, Emitted(n),
                        labelCall.arg.MatchLabels.m[labelCall.order[n]])

\* what holds also when two MatchLabels keys are translated to one key: all
\* but the MatchLabels values are carried over, and the new MatchLabels hold
\* every translated key with the value of one of the keys translated to it
CarriedButForMergedKeys ==
    labelCall.op # "none" =>
        /\ labelCall.ret.isNil = labelCall.arg.isNil
        /\ labelCall.ret.MatchLabels.isNil = labelCall.arg.MatchLabels.isNil
        /\ RequirementsCarried
        /\ \A n \in 1..LabelCalls :
               \E m \in 1..LabelCalls :
                   /\ Emitted(m) = Emitted(n)
                   /\ HasEntry(labelCall.ret.MatchLabels.m, Emitted(n),
                               labelCall.arg.MatchLabels.m[labelCall.order[m]])

\* C14 as stated: a host-to-virtual rewrite never puts a host key without a
\* known translation into the new selector.
C14_MissSurfaced ==
    labelCall.op \in {"VirtualLabelSelector", "VirtualLabelSelectorCluster"} =>
        \A n \in 1..Len(labelCall.calls) :
            ~labelCall.calls[n].found =>
                /\ labelCall.calls[n].key \notin DOMAIN labelCall.ret.MatchLabels.m
                /\ \A i \in 1..Len(labelCall.ret.MatchExpressions) :
                       labelCall.ret.MatchExpressions[i].Key # labelCall.calls[n].key

\* C14 amended: a host-to-virtual rewrite keeps a key without a known
\* translation unchanged, in MatchLabels and in every requirement, and puts
\* the translation in place of every other key; a virtual-to-host rewrite has
\* no miss, and puts what the key translation returns in place of every key.
C14_MissKeptUnchanged ==
    labelCall.op # "none" =>
        /\ Len(labelCall.calls) = LabelCalls + Len(labelCall.arg.MatchExpressions)
        /\ Len(labelCall.ret.MatchExpressions) = Len(labelCall.arg.MatchExpressions)
        /\ \A n \in 1..LabelCalls :
               /\ labelCall.calls[n].key = labelCall.order[n]
               /\ Emitted(n) \in DOMAIN labelCall.ret.MatchLabels.m
        /\ \A i \in 1..Len(labelCall.arg.MatchExpressions) :
               /\ labelCall.calls[LabelCalls + i].key = labelCall.arg.MatchExpressions[i].Key
               /\ i <= Len(labelCall.ret.MatchExpressions) =>
                      labelCall.ret.MatchExpressions[i].Key = Emitted(LabelCalls + i)
        /\ labelCall.op \in {"HostLabelSelector", "HostLabelSelectorCluster"} =>
               \A n \in 1..Len(labelCall.calls) : labelCall.calls[n].found
        /\ (labelCall.op = "VirtualLabelSelectorCluster" /\ labelCall.calls # <<>>) =>
               LET t == VirtualLabelCluster(env, labelCall.before, labelCall.calls[1].key)
               IN  /\ labelCall.calls[1].found = t.found
                   /\ labelCall.calls[1].retLabel = t.retLabel

\* C14 witness: a host selector whose requirement has a reserved-prefix key
\* that the store, which holds other pairs, has no inverse for was rewritten,
\* and the new requirement has that host key.
C14_Witness ==
    /\ labelCall.op = "VirtualLabelSelectorCluster"
    /\ env.hasStore
    /\ DOMAIN labelCall.before # {}
    /\ Len(labelCall.arg.MatchExpressions) = 1
    /\ labelCall.arg.MatchLabels.isNil
    /\ ~labelCall.calls[1].found
    /\ labelCall.ret.MatchExpressions[1].Key = LabelPrefix \o <<"-", "c">>

-----------------------------------------------------------------------------
(* Host namespaces of two vcluster instances *)

\* the host namespaces the instances run in and the names they were given
InstanceNamespaces == {Str("a"), <<"a", "x">>, Str("b")}
InstanceNames == {Str("b"), <<"x", "b">>, Str("c")}

Instances ==
    {[currentNamespace |-> n, vClusterName |-> v] :
        n \in InstanceNamespaces, v \in InstanceNames}

InitNamespace ==
    /\ nameIn \in {[first |-> s, second |-> t, vFirst |-> v, vSecond |-> w] :
                      s \in Instances, t \in Instances,
                      v \in VirtualNamespaces, w \in VirtualNamespaces}
    /\ nameOut = NoCall
    /\ IdleMerge
    /\ IdleLabel
    /\ IdleSchema

\* each instance translates its virtual namespace
CallHostNamespace ==
    /\ nameOut = NoCall
    /\ nameOut' = <<HostNamespace(nameIn.first, nameIn.vFirst),
                    HostNamespace(nameIn.second, nameIn.vSecond)>>
    /\ UNCHANGED <<schemaVars, nameIn, mapsCall, pObj, hist, store, env, labelCall>>

NextNamespace == CallHostNamespace

SpecNamespace == InitNamespace /\ [][NextNamespace]_vars

\* the strings the two translations take a digest of
Digested ==
    {nameIn.vFirst, nameIn.vSecond,
     nameIn.first.currentNamespace \o <<"x">> \o nameIn.first.vClusterName,
     nameIn.second.currentNamespace \o <<"x">> \o nameIn.second.vClusterName}

\* the digests of the strings at hand differ whenever the strings do
DigestsDiffer ==
    \A x, y \in Digested :
        x # y => Sha256Hex(x, NamespaceDigestLen) # Sha256Hex(y, NamespaceDigestLen)

\* C15: two instances whose (current host namespace, vcluster name) pairs
\* differ give different host namespaces to any two virtual namespaces that
\* are not pinned, as long as the digests of different strings differ.
C15_NoCollision ==
    (/\ nameOut # NoCall
     /\ nameIn.first # nameIn.second
     /\ nameIn.vFirst \notin PinnedNamespaces
     /\ nameIn.vSecond \notin PinnedNamespaces
     /\ DigestsDiffer) =>
        nameOut[1] # nameOut[2]

-----------------------------------------------------------------------------
(* Invocations of EnsureCRDFromPhysicalCluster for one kind *)

\* two callers, so that two invocations can race; each may call again after
\* its call returned
Invocations == {"first", "second"}

Version(name, served, storage, status) ==
    [Name |-> name, Served |-> served, Storage |-> storage, Subresources |-> status]

\* the version lists of the host definition: the requested version alone,
\* first of two and not the storage version, second of two, and missing
HostVersions ==
    {<<Version("v1", TRUE, TRUE, TRUE)>>,
     <<Version("v1", FALSE, FALSE, TRUE), Version("v2", TRUE, TRUE, FALSE)>>,
     <<Version("v2", TRUE, TRUE, TRUE), Version("v1", TRUE, FALSE, FALSE)>>,
     <<Version("v2", TRUE, TRUE, TRUE)>>}

\* host definitions as an API server returns them: with identity fields,
\* a status, and a conversion configuration when there are two versions
HostDefinitions ==
    {[UID |-> "uid", ResourceVersion |-> "7", ManagedFields |-> TRUE,
      OwnerReferences |-> TRUE, Status |-> TRUE, PreserveUnknownFields |-> TRUE,
      Conversion |-> (Len(vs) > 1), Scope |-> scope, Versions |-> vs] :
        vs \in HostVersions, scope \in {"Namespaced", "Cluster"}}

InitSchema ==
    /\ pCluster \in {[exposesKind |-> k, definition |-> d] :
                        k \in BOOLEAN, d \in HostDefinitions}
    /\ vCluster = [crd |-> None, established |-> FALSE, creatorFlags |-> None]
    /\ reconcile = [p \in Invocations |-> Fresh]
    /\ IdleName
    /\ IdleMerge
    /\ IdleLabel

Translations == <<nameIn, nameOut, mapsCall, pObj, hist, store, env, labelCall>>

Flags(r) ==
    [isClusterScoped |-> r.isClusterScoped,
     hasStatusSubresource |-> r.hasStatusSubresource]

\* the call
Invoke(p) ==
    /\ reconcile[p].pc \in {"idle", "returned"}
    /\ reconcile' = [reconcile EXCEPT ![p] = [Fresh EXCEPT !.pc = "kind exists"]]
    /\ UNCHANGED <<pCluster, vCluster, Translations>>

StepKindExists(p) ==
    /\ reconcile[p].pc = "kind exists"
    /\ \E outcome \in {"ok", "error", "client error"} :
           reconcile' = [reconcile EXCEPT ![p] = KindExists(@, vCluster, outcome)]
    /\ UNCHANGED <<pCluster, vCluster, Translations>>

StepGetVirtual(p) ==
    /\ reconcile[p].pc = "get virtual"
    /\ \E outcome \in {"ok", "error"} :
           reconcile' = [reconcile EXCEPT ![p] = GetVirtual(@, vCluster, outcome)]
    /\ UNCHANGED <<pCluster, vCluster, Translations>>

StepConvertKind(p) ==
    /\ reconcile[p].pc = "convert kind"
    /\ \E outcome \in {"ok", "error"} :
           reconcile' = [reconcile EXCEPT ![p] = ConvertKind(@, pCluster, outcome)]
    /\ UNCHANGED <<pCluster, vCluster, Translations>>

StepGetHost(p) ==
    /\ reconcile[p].pc = "get host"
    /\ \E outcome \in {"ok", "error", "client error"} :
           reconcile' = [reconcile EXCEPT ![p] = GetHost(@, pCluster, outcome)]
    /\ UNCHANGED <<pCluster, vCluster, Translations>>

StepCreate(p) ==
    /\ reconcile[p].pc = "create"
    /\ \E answer \in CreateAnswers(reconcile[p], vCluster) :
           /\ reconcile' = [reconcile EXCEPT ![p] = Create(@, answer)]
           /\ vCluster' = Created(vCluster, reconcile[p], answer)
    /\ UNCHANGED <<pCluster, Translations>>

\* one round of the wait; an invocation that created the definition and
\* returns without an error leaves its flags as the creator's
StepPoll(p) ==
    /\ reconcile[p].pc = "wait"
    /\ \E outcome \in {"ok", "error"} :
           LET r == Poll(reconcile[p], vCluster, outcome)
           IN  /\ reconcile' = [reconcile EXCEPT ![p] = r]
               /\ vCluster' =
                      IF r.pc = "returned" /\ r.err = NoError /\ r.created
                      THEN [vCluster EXCEPT !.creatorFlags = Some(Flags(r))]
                      ELSE vCluster
    /\ UNCHANGED <<pCluster, Translations>>

\* the caller cancels the context during the wait
Cancel(p) ==
    /\ reconcile[p].pc = "wait"
    /\ ~reconcile[p].cancelled
    /\ reconcile' = [reconcile EXCEPT ![p].cancelled = TRUE]
    /\ UNCHANGED <<pCluster, vCluster, Translations>>

\* the virtual cluster accepts the definition, or withdraws the condition
Establish ==
    /\ vCluster.crd # None
    /\ vCluster' = [vCluster EXCEPT !.established = ~@]
    /\ UNCHANGED <<pCluster, reconcile, Translations>>

NextSchema ==
    \/ \E p \in Invocations : Invoke(p)
    \/ \E p \in Invocations : StepKindExists(p)
    \/ \E p \in Invocations : StepGetVirtual(p)
    \/ \E p \in Invocations : StepConvertKind(p)
    \/ \E p \in Invocations : StepGetHost(p)
    \/ \E p \in Invocations : StepCreate(p)
    \/ \E p \in Invocations : StepPoll(p)
    \/ \E p \in Invocations : Cancel(p)
    \/ Establish

SpecSchema == InitSchema /\ [][NextSchema]_vars

\* the backoff loop runs on: a wait is never left without its next round
SpecSchemaLive ==
    SpecSchema /\ \A p \in Invocations : WF_vars(StepPoll(p))

HasReturned(p) == reconcile[p].pc = "returned"
Succeeded(p) == HasReturned(p) /\ reconcile[p].err = NoError

\* the definition carries nothing but the requested version, served and
\* stored, and none of the fields the mirror must not have
Mirrored(d) ==
    /\ Len(d.Versions) = 1
    /\ d.Versions[1].Name = RequestedVersion
    /\ d.Versions[1].Served
    /\ d.Versions[1].Storage
    /\ ~d.Conversion
    /\ ~d.PreserveUnknownFields
    /\ ~d.Status
    /\ d.UID = NoUID
    /\ d.ResourceVersion = NoResourceVersion
    /\ ~d.ManagedFields
    /\ ~d.OwnerReferences

HostDeclaresVersion ==
    \E i \in 1..Len(pCluster.definition.Versions) :
        pCluster.definition.Versions[i].Name = RequestedVersion

C17_SameFlagsOnReentry ==
    \A p \in Invocations :
        (HasReturned(p) /\ reconcile[p].kindExisted) =>
            /\ reconcile[p].err = NoError
            /\ ~reconcile[p].contactedHost
            /\ ~reconcile[p].attemptedCreate
            /\ reconcile[p].polls = "none"
            /\ vCluster.creatorFlags # None =>
                   Flags(reconcile[p]) = vCluster.creatorFlags[1]

\* what holds of such an invocation: all of the above when its Get of the
\* definition succeeded, and all but the status flag when it failed
ReentryButForFailedGet ==
    \A p \in Invocations :
        (HasReturned(p) /\ reconcile[p].kindExisted) =>
            /\ reconcile[p].err = NoError
            /\ ~reconcile[p].contactedHost
            /\ ~reconcile[p].attemptedCreate
            /\ reconcile[p].polls = "none"
            /\ vCluster.creatorFlags # None =>
                   /\ reconcile[p].isClusterScoped =
                          vCluster.creatorFlags[1].isClusterScoped
                   /\ reconcile[p].hasStatusSubresource =
                          IF reconcile[p].virtualGet = "ok"
                          THEN vCluster.creatorFlags[1].hasStatusSubresource
                          ELSE FALSE

\* C18 as stated: a poll whose fetch failed leaves the invocation waiting.
C18_FailedFetchRetried ==
    \A p \in Invocations :
        reconcile[p].polls = "failed" => reconcile[p].pc = "wait"

\* C18 amended: a poll whose fetch failed ends the wait at once, and the
\* invocation returns the error of the wait, which names the kind; an error
\* of a step before the Create is returned before any Create and any poll.
C18_FailedFetchAborts ==
    \A p \in Invocations :
        /\ reconcile[p].polls = "failed" =>
               /\ HasReturned(p)
               /\ reconcile[p].err = WaitError("retrieve crd in virtual cluster")
        /\ (HasReturned(p) /\ reconcile[p].err # NoError /\ ~reconcile[p].attemptedCreate) =>
               reconcile[p].polls = "none"

\* C18 witness: an invocation polled a definition that was not ready, and
\* the fetch of its next poll failed.
C18_Witness ==
    \E p \in Invocations :
        /\ reconcile[p].polls = "failed"
        /\ reconcile[p].created
        /\ HasReturned(p)
        /\ ~vCluster.established

\* a wait that was left with an error
WaitAborted(p) ==
    /\ HasReturned(p)
    /\ reconcile[p].attemptedCreate
    /\ reconcile[p].err # NoError
    /\ reconcile[p].err[1] # "create crd in virtual cluster: "

C20_CreateOnlyAfterHost ==
    /\ \A p \in Invocations :
           /\ reconcile[p].attemptedCreate =>
                  /\ ~reconcile[p].kindExisted
                  /\ reconcile[p].contactedHost
                  /\ reconcile[p].crdDefinition # None
                  /\ pCluster.exposesKind
           /\ (HasReturned(p) /\ reconcile[p].contactedHost
                  /\ reconcile[p].crdDefinition = None) =>
                  reconcile[p].err # NoError /\ ~reconcile[p].attemptedCreate
           /\ reconcile[p].pc = "wait" => reconcile[p].attemptedCreate
           /\ (HasReturned(p) /\ reconcile[p].err # NoError
                  /\ reconcile[p].err[1] = "create crd in virtual cluster: ") =>
                  /\ reconcile[p].err[2] # "already exists"
                  /\ reconcile[p].polls = "none"
    /\ \A p, q \in Invocations :
           (/\ Succeeded(p) /\ reconcile[p].attemptedCreate
            /\ Succeeded(q) /\ reconcile[q].attemptedCreate) =>
               Flags(reconcile[p]) = Flags(reconcile[q])

\* C20 witness: two invocations raced, one created the definition, the
\* other was told that it already exists, and both returned without an error
\* and with the same flags.
C20_Witness ==
    /\ Succeeded("first") /\ reconcile["first"].created
    /\ Succeeded("second") /\ reconcile["second"].attemptedCreate
    /\ ~reconcile["second"].created
    /\ reconcile["first"].hasStatusSubresource
    /\ Flags(reconcile["first"]) = Flags(reconcile["second"])

-----------------------------------------------------------------------------
(* Translations of cluster scoped label maps through one store *)

\* keys of the virtual label maps: a plain key, and a key that carries the
\* reserved prefix itself
LabelMapVirtualKeys == {Str("a"), LabelPrefix \o <<"-", "a">>}

\* keys of the host label maps: the keys derived from the virtual keys, and
\* the virtual keys themselves
LabelMapKeys(e) ==
    {hostLabelCluster(k, e.currentNamespace) : k \in LabelMapVirtualKeys}
        \cup LabelMapVirtualKeys

MaxLabelMapKeys == 2

\* the value of a key tells a key with the reserved prefix from a plain one
LabelMapValue(k) == IF HasPrefix(k, LabelPrefix) THEN Str("1") ELSE Str("2")

LabelMapsOver(K) ==
    {SomeMap([k \in S |-> LabelMapValue(k)]) :
        S \in {S \in SUBSET K : Cardinality(S) <= MaxLabelMapKeys}}

\* the keys VirtualLabelCluster gives for the keys of S that it translates
TranslatedKeys(e, st, S) ==
    {VirtualLabelCluster(e, st, k).retLabel :
        k \in {x \in S : VirtualLabelCluster(e, st, x).found}}

\* the keys whose entry a visit of an entry of the map can create
CreatedKeys(e, st, retLabels) == TranslatedKeys(e, st, DOMAIN retLabels)

\* the runs of the translation loop: every order of the entries of the map,
\* with every choice of the created entries that are produced (an entry
\* created by the visit of a created entry is not produced in these runs)
Schedules(e, st, pLabels, vLabels, excluded) ==
    LET retLabels == clusterRetLabels(pLabels, vLabels, excluded)
    IN  {[order |-> o, revisit |-> r] :
            o \in Orders(DOMAIN retLabels),
            r \in SUBSET CreatedKeys(e, st, retLabels)}

InitLabelsMap ==
    /\ env \in {[currentNamespace |-> <<"n", "s">>, hasStore |-> h, keepsIncomplete |-> k] :
                   h \in BOOLEAN, k \in BOOLEAN}
    /\ store = EmptyMap
    /\ labelCall = [op |-> "none"]
    /\ IdleName
    /\ IdleMerge
    /\ IdleSchema

CallHostLabelsMapCluster ==
    \E vLabels \in {NilMap} \cup LabelMapsOver(LabelMapVirtualKeys),
       pLabels \in {NilMap, SomeMap([k \in {ControllerLabel} |-> Str("3")])} :
        \E order \in Orders(DOMAIN vLabels.m) :
            LET r == HostLabelsMapCluster(env, store, vLabels, pLabels, order)
            IN  /\ store' = r.store
                /\ labelCall' = [op |-> "HostLabelsMapCluster", vLabels |-> vLabels,
                                 pLabels |-> pLabels, labels |-> SomeMap(r.labels),
                                 before |-> store]
                /\ UNCHANGED <<schemaVars, nameIn, nameOut, mapsCall, pObj, hist, env>>

CallVirtualLabelsMapCluster ==
    \E pLabels \in {NilMap} \cup LabelMapsOver(LabelMapKeys(env)),
       vLabels \in {NilMap},
       excluded \in {<<>>, <<Str("a")>>} :
        \E s \in Schedules(env, store, pLabels, vLabels, excluded) :
            LET r == VirtualLabelsMapCluster(env, store, pLabels, vLabels, excluded,
                                             s.order, s.revisit)
            IN  /\ store' = r.store
                /\ labelCall' = [op |-> "VirtualLabelsMapCluster", pLabels |-> pLabels,
                                 vLabels |-> vLabels, excluded |-> excluded,
                                 labels |-> r.labels, visits |-> r.visits,
                                 before |-> store]
                /\ UNCHANGED <<schemaVars, nameIn, nameOut, mapsCall, pObj, hist, env>>

NextLabelsMap == CallHostLabelsMapCluster \/ CallVirtualLabelsMapCluster

SpecLabelsMap == InitLabelsMap /\ [][NextLabelsMap]_vars

\* the maps VirtualLabelsMapCluster can return for the arguments and the
\* store of the call just made, over every run Go allows
ReturnedMaps ==
    {VirtualLabelsMapCluster(env, labelCall.before, labelCall.pLabels, labelCall.vLabels,
                             labelCall.excluded, s.order, s.revisit).labels :
        s \in Schedules(env, labelCall.before, labelCall.pLabels, labelCall.vLabels,
                        labelCall.excluded)}

\* C21: VirtualLabelsMapCluster is deterministic: for the same host labels,
\* virtual labels and store it returns the same map whatever order the label
\* map is visited in and whether or not the entries the loop creates are
\* visited again.
C21_Deterministic ==
    labelCall.op = "VirtualLabelsMapCluster" => ReturnedMaps = {labelCall.labels}

\* What holds of C21: the map returned is the same in every run when no
\* virtual key recorded in the store carries the reserved prefix itself.
DeterministicButForPrefixedVirtualKeys ==
    (/\ labelCall.op = "VirtualLabelsMapCluster"
     /\ \A h \in DOMAIN labelCall.before :
            ~HasPrefix(labelCall.before[h], LabelPrefix)) =>
        ReturnedMaps = {labelCall.labels}

\* a call of the kind above that did translate a derived key back, in a run
\* that visited a created entry again
PlainKeyRevisited ==
    /\ labelCall.op = "VirtualLabelsMapCluster"
    /\ \A h \in DOMAIN labelCall.before : ~HasPrefix(labelCall.before[h], LabelPrefix)
    /\ ~labelCall.labels.isNil
    /\ Str("a") \in DOMAIN labelCall.labels.m
    /\ \E i, j \in 1..Len(labelCall.visits) :
           /\ i < j
           /\ HasPrefix(labelCall.visits[i], LabelPrefix)
           /\ labelCall.visits[j] = Str("a")

====
